---- MODULE Spec2Model ----
(***************************************************************************)
(* Dockyard: the exec / logs streaming core of the agent.                  *)
(*                                                                         *)
(* Two agent implementations live in the repository and both are modelled: *)
(*   "main"     - agent/main.py, DockyardServicer.ExecContainer / GetLogs  *)
(*   "servicer" - agent/grpc_server/servicer.py on top of                  *)
(*                agent/services/exec_service.py (ExecService)             *)
(*                                                                         *)
(* Specifications:                                                         *)
(*   Spec       one ExecContainer call, its pump threads, the exec'd       *)
(*              process and the runtime connection                         *)
(*   DemuxSpec  the frame parsing of one buffer read from the runtime      *)
(*              (handle_output of main.py, and the GetLogs loop body)      *)
(*   CancelSpec, FairSpec  Spec with the client cancelling / with the      *)
(*              handler scheduled fairly                                   *)
(*   SinceSpec, LogsSpec   the since parameter and one GetLogs call        *)
(*   CliSpec    the CLI exec command reading a response stream             *)
(*   AuthSpec   the authentication of one call                             *)
(*   ConvSpec   the servicer's conversion of one ExecService result        *)
(*   MultiSpec  several ExecContainer calls served at once                 *)
(*   StatsSpec  one GetStats call                                          *)
(*   RemoveSpec one RemoveContainer call                                   *)
(*   IterSpec   the CLI's interactive exec and its request iterator        *)
(***************************************************************************)
EXTENDS Integers, Sequences, FiniteSets, TLC

VARIABLES
    \* ---- one ExecContainer call (Spec) ----
    impl,             \* which agent serves the call: "main" | "servicer"
    container_status, \* the runtime's view of the target: "absent" | "exited" | "running"
    requests,         \* the inbound request stream, as the client sends it
    req_pos,          \* number of inbound messages consumed from request_iterator
    inbound_open,     \* FALSE once the client has half-closed the request stream
    hpc,              \* position of the handler (the response generator)
    ipc,              \* position of the input pump thread
    opc,              \* position of the output pump thread
    proc_todo,        \* frames the exec'd process will still write
    proc_emitted,     \* frames the process has written so far
    proc_running,     \* the exec'd process is alive
    proc_exit,        \* its exit code once it has exited
    sock_rx,          \* frames written by the process, not yet read from the socket
    sock_shut_wr,     \* write side of the exec socket has been shut down
    sock_closed,      \* number of close() calls made on the exec socket
    stdin_bytes,      \* bytes delivered to the process's stdin
    output_queue,     \* queue.Queue between the output pump and the handler
    stop_event,       \* threading.Event of ExecService._execute_interactive
    outbound,         \* the response stream: messages yielded by the handler
    runtime_up,       \* the connection to the container runtime is alive
    api_calls,        \* runtime API calls issued by the call
    exit_status,      \* "none" | "obtained" | "lost": outcome of the exit-status step
    faults,           \* exceptions raised so far, by origin: "runtime_client" |
                      \* "recv" | "send" | "request_iterator"
    cancelled,        \* the client has cancelled the call
    \* ---- frame parsing of one buffer (DemuxSpec) ----
    dpc,              \* "ready" | "exec" | "logs"
    frames,           \* the valid frames the buffer starts with
    tail,             \* what follows them: [kind, bytes]
    req_stdout,       \* LogsRequest.stdout
    req_stderr,       \* LogsRequest.stderr
    interactive_mode, \* tty flag of the exec call the buffer belongs to
    chunks,           \* the (stream, payload) pairs the parser produced
    \* ---- one GetLogs call (LogsSpec), the since parameter (SinceSpec) ----
    follow,           \* LogsRequest.follow
    log_todo,         \* chunks the runtime will still deliver on the log stream
    log_read,         \* chunks the agent has taken from the log stream
    log_open,         \* the runtime keeps the log stream open after the last chunk
    log_args,         \* what container.logs was asked for: None or << [stdout, stderr, since] >>
    since,            \* LogsRequest.since, a sequence of characters
    since_time,       \* "unset", or the parsed lower bound: None or << seconds >>
    \* ---- the CLI exec command reading a response stream (CliSpec) ----
    cli_impl,         \* "command" (cli/commands/exec.py) | "main" (cli/main.py)
    cli_pc,           \* "off" | "run" | "exited"
    cli_in,           \* the response stream the CLI receives
    cli_pos,          \* number of responses the CLI has handled
    cli_exit,         \* the exit code of the CLI process, once exited
    cli_err,          \* what the CLI printed to its error stream
    \* ---- the authentication of one call (AuthSpec) ----
    auth_pc,          \* "off" | "boot" | "serving" | "handler" | "unauthenticated"
    auth_enabled,     \* AgentConfig.auth_enabled
    secret,           \* DOCKYARD_AUTH_TOKEN: None or << token >>
    metadata,         \* the call's authorization metadata: None or << token >>
    interceptor,      \* the server was built with a TokenAuthInterceptor
    \* ---- the servicer's conversion of one ExecService result (ConvSpec) ----
    conv_pc,          \* "off" | "ready" | "done"
    exec_result,      \* the dict ExecService yielded: [stdout, stderr, exit_code]
    conv_response,    \* None, or << the ExecResponse built from it >>
    \* ---- several ExecContainer calls served at once (MultiSpec) ----
    m_pc,             \* per call: position of its handler
    m_proc,           \* per call: chunks its exec'd process will still write
    m_in,             \* per call: input messages its client will still send
    m_sock,           \* per socket: chunks written by the process, not yet read
    m_stdin,          \* per socket: bytes delivered to the process behind it
    m_queue,          \* per queue: items put by an output pump, not yet taken
    m_out,            \* per call: its response stream
    \* ---- one GetStats call (StatsSpec) ----
    stats_stream,     \* StatsRequest.stream
    stats_ids,        \* StatsRequest.container_identifiers
    world,            \* the runtime's containers: name -> "absent" | "exited" | "running"
    selected,         \* the containers the call collects from
    rounds,           \* collection rounds completed
    \* ---- one RemoveContainer call (RemoveSpec) ----
    force,            \* RemoveRequest.force
    seen_status,      \* "unseen", or container.status as the handler read it
    \* ---- the CLI's interactive exec request iterator (IterSpec) ----
    cli_stop,         \* stop_event of _execute_interactive
    it_pc,            \* position of request_iterator
    cli_queue,        \* input_queue of _execute_interactive
    it_sent           \* the request messages the iterator has yielded

execVars == << impl, container_status, requests, req_pos, inbound_open, hpc, ipc, opc,
               proc_todo, proc_emitted, proc_running, proc_exit, sock_rx, sock_shut_wr,
               sock_closed, stdin_bytes, output_queue, stop_event, outbound, runtime_up,
               api_calls, exit_status, faults, cancelled >>

demuxVars == << dpc, frames, tail, req_stdout, req_stderr, interactive_mode, chunks >>

logsVars == << follow, log_todo, log_read, log_open, log_args, since, since_time >>

cliVars == << cli_impl, cli_pc, cli_in, cli_pos, cli_exit, cli_err >>

authVars == << auth_pc, auth_enabled, secret, metadata, interceptor >>

convVars == << conv_pc, exec_result, conv_response >>

multiVars == << m_pc, m_proc, m_in, m_sock, m_stdin, m_queue, m_out >>

statsVars == << stats_stream, stats_ids, world, selected, rounds >>

rmVars == << force, seen_status >>

iterVars == << cli_stop, it_pc, cli_queue, it_sent >>

extVars == << convVars, multiVars, statsVars, rmVars, iterVars >>

auxVars == << logsVars, cliVars, authVars, extVars >>

vars == << execVars, demuxVars, auxVars >>

(***************************************************************************)
(* Bounds of the model.                                                    *)
(***************************************************************************)
MaxFrames == 2      \* frames written by the exec'd process in one call
MaxInputs == 1      \* input messages following the first inbound message
MaxDemuxFrames == 2 \* valid frames at the head of a parsed buffer
MaxPayload == 1     \* payload bytes of a frame of a parsed buffer

(***************************************************************************)
(* Bytes, Python slices, and the runtime's frame format.                   *)
(***************************************************************************)
None == << >>       \* Python None / an unset optional: the empty option
Some(x) == << x >>

Min(a, b) == IF a <= b THEN a ELSE b

\* Python's s[a:b] for 0 <= a: the elements of index a .. b-1, clamped to the length
Slice(s, a, b) == SubSeq(s, a + 1, Min(b, Len(s)))

\* int.from_bytes(b, 'big') of a 4-byte sequence
FromBytesBig(b) == b[1] * 16777216 + b[2] * 65536 + b[3] * 256 + b[4]

\* the 4-byte big-endian encoding of n, as the runtime writes it
ToBytesBig(n) == << (n \div 16777216) % 256, (n \div 65536) % 256, (n \div 256) % 256, n % 256 >>

\* one multiplexed frame as the runtime writes it: tag, 3 reserved bytes, length, payload
EncodeFrame(f) == << f.tag, 0, 0, 0 >> \o ToBytesBig(Len(f.payload)) \o f.payload

RECURSIVE EncodeFrames(_)
EncodeFrames(fs) == IF fs = << >> THEN << >> ELSE EncodeFrame(Head(fs)) \o EncodeFrames(Tail(fs))

RECURSIVE RawBytes(_)
\* the payload bytes of a frame sequence: what a TTY session carries, unframed
RawBytes(fs) == IF fs = << >> THEN << >> ELSE Head(fs).payload \o RawBytes(Tail(fs))

StreamName(tag) == IF tag = 1 THEN "stdout" ELSE "stderr"

(***************************************************************************)
(* handle_output of agent/main.py: what one recv()'d buffer becomes in the *)
(* output queue.                                                           *)
(***************************************************************************)
HandleOutputItem(data, interactive) ==
    IF interactive
    THEN << "stdout", data >>
    ELSE IF Len(data) >= 8
         THEN LET stream_type == data[1]
                  size == FromBytesBig(Slice(data, 4, 8))
                  payload == IF size <= Len(data) - 8
                             THEN Slice(data, 8, 8 + size)
                             ELSE Slice(data, 8, Len(data))
                  stream_name == IF stream_type = 1 THEN "stdout" ELSE "stderr"
              IN  << stream_name, payload >>
         ELSE << "stdout", data >>

(***************************************************************************)
(* GetLogs of agent/main.py: the stream flags, and what one log_line of    *)
(* the runtime's log generator becomes.                                    *)
(***************************************************************************)
\* lines 430-437: both flags false means both streams
LogsStdout(rs, re) == IF ~rs /\ ~re THEN TRUE ELSE rs
LogsStderr(rs, re) == IF ~rs /\ ~re THEN TRUE ELSE re

GetLogsEntry(log_line, stdout, stderr) ==
    IF stdout /\ stderr /\ Len(log_line) >= 8
    THEN LET stream_type == log_line[1]
         IN  IF stream_type \in {1, 2}
             THEN LET size == FromBytesBig(Slice(log_line, 4, 8))
                  IN  IF size <= Len(log_line) - 8
                      THEN << StreamName(stream_type), Slice(log_line, 8, 8 + size) >>
                      ELSE << "stdout", log_line >>
             ELSE << "stdout", log_line >>
    ELSE << (IF stdout THEN "stdout" ELSE "stderr"), log_line >>


(***************************************************************************)
(* DemuxSpec: one buffer, built from valid frames and a tail, is handed to *)
(* the frame parsing of the exec output pump and of the GetLogs loop.      *)
(***************************************************************************)
PayloadBytes == {65, 66}

RECURSIVE SeqsUpTo(_, _)
\* all sequences over S of length at most n
SeqsUpTo(S, n) ==
    IF n = 0 THEN { << >> }
    ELSE LET shorter == SeqsUpTo(S, n - 1)
         IN  shorter \cup { Append(s, x) : s \in shorter, x \in S }

DemuxPayloads == SeqsUpTo(PayloadBytes, MaxPayload)
DemuxFrameSet == [tag : {1, 2}, payload : DemuxPayloads]

\* what may follow the valid frames of a buffer
DemuxTails ==
    { [kind |-> "none", bytes |-> << >>] }
    \cup { [kind |-> "truncated",
            bytes |-> << t, 0, 0, 0 >> \o ToBytesBig(Len(p) + 1) \o p] :
            t \in {1, 2}, p \in DemuxPayloads }
    \cup { [kind |-> "badtag",
            bytes |-> << t, 0, 0, 0 >> \o ToBytesBig(Len(p)) \o p] :
            t \in {0, 3}, p \in DemuxPayloads }
    \cup { [kind |-> "short", bytes |-> p] : p \in DemuxPayloads \ { << >> } }

\* the buffer under parsing
Buffer == EncodeFrames(frames) \o tail.bytes

ExecIdle ==
    /\ impl = "main" /\ container_status = "running" /\ requests = << >>
    /\ req_pos = 0 /\ inbound_open = FALSE /\ hpc = "off" /\ ipc = "idle" /\ opc = "idle"
    /\ proc_todo = << >> /\ proc_emitted = << >> /\ proc_running = FALSE /\ proc_exit = 0
    /\ sock_rx = << >> /\ sock_shut_wr = FALSE /\ sock_closed = 0 /\ stdin_bytes = << >>
    /\ output_queue = << >> /\ stop_event = FALSE /\ outbound = << >> /\ runtime_up = TRUE
    /\ api_calls = {} /\ exit_status = "none" /\ faults = {} /\ cancelled = FALSE

DemuxIdle ==
    /\ dpc = "off" /\ frames = << >> /\ tail = [kind |-> "none", bytes |-> << >>]
    /\ req_stdout = FALSE /\ req_stderr = FALSE /\ interactive_mode = FALSE
    /\ chunks = << >>

LogsIdle ==
    /\ follow = FALSE /\ log_todo = << >> /\ log_read = << >> /\ log_open = FALSE
    /\ log_args = << >> /\ since = << >> /\ since_time = "unset"

CliIdle ==
    /\ cli_impl = "command" /\ cli_pc = "off" /\ cli_in = << >> /\ cli_pos = 0
    /\ cli_exit = 0 /\ cli_err = << >>

AuthIdle ==
    /\ auth_pc = "off" /\ auth_enabled = FALSE /\ secret = << >> /\ metadata = << >>
    /\ interceptor = FALSE

\* The ExecContainer calls served at once, and the names the runtime knows.
Calls == {1, 2}

ContainerNames == {"web", "db"}

ConvIdle ==
    /\ conv_pc = "off" /\ conv_response = << >>
    /\ exec_result = [stdout |-> << >>, stderr |-> << >>, exit_code |-> << >>]

MultiIdle ==
    /\ m_pc = [c \in Calls |-> "off"] /\ m_proc = [c \in Calls |-> << >>]
    /\ m_in = [c \in Calls |-> << >>] /\ m_sock = [c \in Calls |-> << >>]
    /\ m_stdin = [c \in Calls |-> << >>] /\ m_queue = [c \in Calls |-> << >>]
    /\ m_out = [c \in Calls |-> << >>]

StatsIdle ==
    /\ stats_stream = FALSE /\ stats_ids = {} /\ selected = {} /\ rounds = 0
    /\ world = [n \in ContainerNames |-> "absent"]

RemoveIdle == force = FALSE /\ seen_status = "unseen"

IterIdle == cli_stop = FALSE /\ it_pc = "off" /\ cli_queue = << >> /\ it_sent = << >>

ExtIdle == ConvIdle /\ MultiIdle /\ StatsIdle /\ RemoveIdle /\ IterIdle

AuxIdle == LogsIdle /\ CliIdle /\ AuthIdle /\ ExtIdle

DemuxInit ==
    /\ ExecIdle
    /\ AuxIdle
    /\ dpc = "ready"
    /\ frames \in SeqsUpTo(DemuxFrameSet, MaxDemuxFrames)
    /\ tail \in DemuxTails
    /\ req_stdout \in BOOLEAN
    /\ req_stderr \in BOOLEAN
    /\ interactive_mode \in BOOLEAN
    /\ chunks = << >>

\* main.py 291-310: an empty read is end-of-stream, any other buffer is one queue item
ExecChunks(data, interactive) ==
    IF data = << >> THEN << >> ELSE << HandleOutputItem(data, interactive) >>

\* main.py 495-529: an empty log_line is skipped, any other is one log entry
LogsChunks(log_line, rs, re) ==
    IF log_line = << >> THEN << >>
    ELSE << GetLogsEntry(log_line, LogsStdout(rs, re), LogsStderr(rs, re)) >>

DemuxExec ==
    /\ dpc = "ready"
    /\ chunks' = ExecChunks(Buffer, interactive_mode)
    /\ dpc' = "exec"
    /\ UNCHANGED << execVars, auxVars, frames, tail, req_stdout, req_stderr,
                    interactive_mode >>

DemuxLogs ==
    /\ dpc = "ready"
    /\ chunks' = LogsChunks(Buffer, req_stdout, req_stderr)
    /\ dpc' = "logs"
    /\ UNCHANGED << execVars, auxVars, frames, tail, req_stdout, req_stderr,
                    interactive_mode >>

DemuxNext == DemuxExec \/ DemuxLogs

DemuxSpec == DemuxInit /\ [][DemuxNext]_vars


(***************************************************************************)
(* Messages of the ExecContainer call.                                     *)
(***************************************************************************)
\* ExecRequest: the "start" variant or the "input" variant (unset fields read
\* as their proto3 defaults)
StartMsg(command, interactive) ==
    [kind |-> "start", command |-> command, interactive |-> interactive, data |-> << >>]
InputMsg(data) ==
    [kind |-> "input", command |-> << >>, interactive |-> FALSE, data |-> data]

\* a handler that takes any first message for the start message
HasFieldStart_Mut(request) == TRUE

\* request.HasField('start')
HasFieldStart(request) == request.kind = "start"

\* ExecResponse(status=ExecStatus(...)); exit_code is an option, unset reads as 0
Status(success, exit_code, finished) ==
    [type |-> "status", success |-> success,
     exit_code |-> IF exit_code = None THEN 0 ELSE exit_code[1],
     finished |-> finished, data |-> << >>, stream_type |-> ""]

\* ExecResponse(output=ExecOutput(data, stream_type))
Output(data, stream_type) ==
    [type |-> "output", success |-> FALSE, exit_code |-> 0, finished |-> FALSE,
     data |-> data, stream_type |-> stream_type]

\* the dictionaries ExecService yields
OutputDict(stdout, stderr, exit_code) ==
    [stdout |-> stdout, stderr |-> stderr, exit_code |-> exit_code]

\* str(e).encode(): the bytes of an error text
ErrorText == << 69 >>

\* the except branches of ExecService: {'stdout': b'', 'stderr': str(e).encode(), 'exit_code': -1}
ErrorDict == OutputDict(<< >>, ErrorText, Some(-1))

\* servicer.py 146-163: how the servicer turns one ExecService result into a response
ServicerResponse(output) ==
    IF output.exit_code # None
    THEN Status(TRUE, output.exit_code, TRUE)
    ELSE Output(IF output.stdout # << >> THEN output.stdout ELSE output.stderr,
                IF output.stdout # << >> THEN "stdout" ELSE "stderr")

\* the failure statuses of main.py's early returns and of its outer except
\* (174-179, 191-196, 203-208, 214-219, 395-400): finished is left unset
MainEarlyFailure == Status(FALSE, None, FALSE)

\* servicer.py 116-122 and 167-173
ServicerFailure == Status(FALSE, None, TRUE)

(***************************************************************************)
(* The call's inputs.                                                      *)
(***************************************************************************)
EchoHi == << "echo", "hi" >>
Commands == { << >>, << "sh" >>, EchoHi }
InputData == { << >>, << 67, 68 >> }
ExecFrameSet == { [tag |-> 1, payload |-> << 65 >>], [tag |-> 2, payload |-> << 66 >>] }
ExitCodes == {0, 1}

\* "hi\n", the one frame that echo hi writes to its stdout
HiFrame == [tag |-> 1, payload |-> << 104, 105, 10 >>]

\* the call runs echo hi
RunsEchoHi(reqs) == reqs # << >> /\ reqs[1].kind = "start" /\ reqs[1].command = EchoHi

\* what the exec'd process writes, and how it exits: echo hi writes "hi\n" and
\* exits with 0, any other command is free
ProcOutputs(reqs) ==
    IF RunsEchoHi(reqs) THEN { << HiFrame >> } ELSE SeqsUpTo(ExecFrameSet, MaxFrames)
ProcExitCodes(reqs) == IF RunsEchoHi(reqs) THEN {0} ELSE ExitCodes

FirstMsgs == { StartMsg(c, i) : c \in Commands, i \in BOOLEAN } \cup { InputMsg(<< 67, 68 >>) }
RequestStreams ==
    { << >> } \cup
    { << f >> \o ins : f \in FirstMsgs,
                       ins \in SeqsUpTo({ InputMsg(d) : d \in InputData }, MaxInputs) }

\* the start configuration of the call (first_request.start)
start == requests[1]

Init ==
    /\ DemuxIdle
    /\ AuxIdle
    /\ impl \in {"main", "servicer"}
    /\ container_status \in {"absent", "exited", "running"}
    /\ requests \in RequestStreams
    /\ req_pos = 0
    /\ inbound_open = TRUE
    /\ hpc = "first" /\ ipc = "idle" /\ opc = "idle"
    /\ proc_todo \in ProcOutputs(requests)
    /\ proc_emitted = << >>
    /\ proc_running = FALSE
    /\ proc_exit = 0
    /\ sock_rx = << >>
    /\ sock_shut_wr = FALSE
    /\ sock_closed = 0
    /\ stdin_bytes = << >>
    /\ output_queue = << >>
    /\ stop_event = FALSE
    /\ outbound = << >>
    /\ runtime_up = TRUE
    /\ api_calls = {}
    /\ exit_status = "none"
    /\ faults = {}
    /\ cancelled = FALSE

clientVars == << requests, inbound_open >>
procVars == << proc_todo, proc_emitted, proc_running, proc_exit >>
sockVars == << sock_rx, sock_shut_wr, sock_closed, stdin_bytes >>
pumpVars == << ipc, opc, output_queue, stop_event >>
\* what no step of the agent changes
fixedVars == << impl, container_status, demuxVars, cancelled, auxVars >>

\* the handler yields one response message
Yield(msg) == outbound' = Append(outbound, msg)
Call(name) == api_calls' = api_calls \cup {name}

\* the handler yields msg and goes on at pc when it is resumed; the server takes
\* no response of a cancelled call and never resumes its generator, which is
\* closed where it stands: no except clause of the handlers catches that
YieldTo(msg, pc) ==
    IF cancelled
    THEN hpc' = "done" /\ UNCHANGED outbound
    ELSE Yield(msg) /\ hpc' = pc

\* an exception is raised
Raise(origin) == faults' = faults \cup {origin}

\* an inspection that never reports an exit code
InspectExitCode_Mut == None

\* exec_inspect(exec_id).get('ExitCode'): null while the process runs
InspectExitCode == IF proc_running THEN None ELSE Some(proc_exit)

(***************************************************************************)
(* agent/main.py, DockyardServicer.ExecContainer: the handler.             *)
(***************************************************************************)
\* 171-197: next(request_iterator), the start check, the command check
M_First ==
    /\ impl = "main" /\ hpc = "first"
    /\ req_pos < Len(requests) \/ ~inbound_open
    /\ IF req_pos = Len(requests)
       THEN \* StopIteration, caught by the outer except (393-400)
            /\ Raise("request_iterator")
            /\ YieldTo(MainEarlyFailure, "done") /\ UNCHANGED req_pos
       ELSE LET first_request == requests[req_pos + 1]
            IN  /\ req_pos' = req_pos + 1
                /\ UNCHANGED faults
                /\ IF ~HasFieldStart(first_request)
                   THEN YieldTo(MainEarlyFailure, "done")
                   ELSE IF first_request.command = << >>
                        THEN YieldTo(MainEarlyFailure, "done")
                        ELSE hpc' = "lookup" /\ UNCHANGED outbound
    /\ UNCHANGED << clientVars, procVars, sockVars, pumpVars, fixedVars, runtime_up,
                    api_calls, exit_status >>

\* 199-220: containers.get, container.reload, the running check
M_Lookup ==
    /\ impl = "main" /\ hpc = "lookup"
    /\ IF ~runtime_up \/ container_status = "absent"
       THEN \* an APIError of a lost connection, or NotFound
            /\ Call("containers.get") /\ Raise("runtime_client")
            /\ YieldTo(MainEarlyFailure, "done")
       ELSE /\ api_calls' = api_calls \cup {"containers.get", "reload"}
            /\ UNCHANGED faults
            /\ IF container_status # "running"
               THEN YieldTo(MainEarlyFailure, "done")
               ELSE hpc' = "exec_create" /\ UNCHANGED outbound
    /\ UNCHANGED << clientVars, req_pos, procVars, sockVars, pumpVars, fixedVars,
                    runtime_up, exit_status >>

\* 222-244: exec_create
M_ExecCreate ==
    /\ impl = "main" /\ hpc = "exec_create"
    /\ Call("exec_create")
    /\ IF ~runtime_up
       THEN Raise("runtime_client") /\ YieldTo(MainEarlyFailure, "done")
       ELSE hpc' = "exec_start" /\ UNCHANGED << outbound, faults >>
    /\ UNCHANGED << clientVars, req_pos, procVars, sockVars, pumpVars, fixedVars,
                    runtime_up, exit_status >>

\* 246-262: exec_start, then the initial success status
M_ExecStart ==
    /\ impl = "main" /\ hpc = "exec_start"
    /\ Call("exec_start")
    /\ IF ~runtime_up
       THEN /\ Raise("runtime_client") /\ YieldTo(MainEarlyFailure, "done")
            /\ UNCHANGED proc_running
       ELSE /\ proc_running' = TRUE
            /\ YieldTo(Status(TRUE, None, FALSE), "threads")
            /\ UNCHANGED faults
    /\ UNCHANGED << clientVars, req_pos, proc_todo, proc_emitted, proc_exit, sockVars,
                    pumpVars, fixedVars, runtime_up, exit_status >>

\* 264-329: the queues, and both threads started
M_StartThreads ==
    /\ impl = "main" /\ hpc = "threads"
    /\ ipc' = "run" /\ opc' = "recv"
    /\ hpc' = "loop"
    /\ UNCHANGED << clientVars, req_pos, procVars, sockVars, output_queue, stop_event,
                    outbound, fixedVars, runtime_up, api_calls, exit_status, faults >>

\* the end signal of handle_output: (None, None)
EndSignal == << "None", << >> >>

\* 333-345: an item taken from the queue: the end signal, or a chunk to forward
M_QueueGet ==
    /\ impl = "main" /\ hpc = "loop"
    /\ output_queue # << >>
    /\ LET stream_type == Head(output_queue)[1]
           data == Head(output_queue)[2]
       IN  /\ output_queue' = Tail(output_queue)
           /\ IF stream_type = "None"
              THEN hpc' = "final" /\ UNCHANGED outbound
              ELSE IF data # << >>
                   THEN YieldTo(Output(data, stream_type), "loop")
                   ELSE hpc' = "loop" /\ UNCHANGED outbound
    /\ UNCHANGED << clientVars, req_pos, procVars, sockVars, ipc, opc, stop_event,
                    fixedVars, runtime_up, api_calls, exit_status, faults >>

\* 346-354: queue.Empty after the 1 s poll: exec_inspect decides whether to go on
M_QueueEmpty ==
    /\ impl = "main" /\ hpc = "loop"
    /\ output_queue = << >>
    /\ Call("exec_inspect")
    /\ IF ~runtime_up
       THEN Raise("runtime_client") /\ hpc' = "final"
       ELSE /\ UNCHANGED faults
            /\ IF ~proc_running THEN hpc' = "final" ELSE hpc' = "loop"
    /\ UNCHANGED << clientVars, req_pos, procVars, sockVars, pumpVars, outbound,
                    fixedVars, runtime_up, exit_status >>

\* 359-385: the final exec_inspect and the terminal status
M_Final ==
    /\ impl = "main" /\ hpc = "final"
    /\ Call("exec_inspect")
    /\ IF runtime_up
       THEN /\ YieldTo(Status(TRUE, InspectExitCode, TRUE), "cleanup")
            /\ exit_status' = "obtained" /\ UNCHANGED faults
       ELSE /\ Raise("runtime_client")
            /\ YieldTo(Status(FALSE, None, TRUE), "cleanup")
            /\ exit_status' = "lost"
    /\ UNCHANGED << clientVars, req_pos, procVars, sockVars, pumpVars, fixedVars,
                    runtime_up >>

\* 387-391: exec_socket.close()
M_Cleanup ==
    /\ impl = "main" /\ hpc = "cleanup"
    /\ sock_closed' = sock_closed + 1
    /\ hpc' = "done"
    /\ UNCHANGED << clientVars, req_pos, procVars, sock_rx, sock_shut_wr, stdin_bytes,
                    pumpVars, outbound, fixedVars, runtime_up, api_calls, exit_status,
                    faults >>


(***************************************************************************)
(* The exec socket, as the pumps see it.                                   *)
(***************************************************************************)
\* a write to the socket raises: the socket is closed or shut down, or the
\* runtime connection is gone (once the process is gone a write may raise or
\* be accepted and go nowhere)
SendRaises == sock_closed > 0 \/ sock_shut_wr \/ ~runtime_up

\* a read returns data: one or more of the pending frames, coalesced
RecvReady == runtime_up /\ sock_closed = 0 /\ sock_rx # << >>

\* a read returns b'': the process is gone and everything was read
RecvEof == runtime_up /\ sock_closed = 0 /\ sock_rx = << >> /\ ~proc_running

\* a read raises: the connection is gone, or the socket was closed under the reader
RecvRaises == ~runtime_up \/ sock_closed > 0

\* the bytes of the first k pending frames: framed without a TTY, raw with one
RecvData(k, tty) ==
    IF tty THEN RawBytes(SubSeq(sock_rx, 1, k)) ELSE EncodeFrames(SubSeq(sock_rx, 1, k))

(***************************************************************************)
(* agent/main.py: the pump threads handle_input and handle_output.         *)
(***************************************************************************)
\* a queue that hands out the newest item first
QueuePut_Mut(q, item) == << item >> \o q

\* queue.Queue.put: main.py 299-310, 316, 319; exec_service.py 194, 202
QueuePut(q, item) == Append(q, item)

\* 271-277: one inbound message; socket.send may accept only part of the data
HI_Next ==
    /\ impl = "main" /\ ipc = "run"
    /\ ~cancelled
    /\ req_pos < Len(requests)
    /\ req_pos' = req_pos + 1
    /\ LET request == requests[req_pos + 1]
       IN  IF request.kind = "input" /\ request.data # << >>
           THEN \/ \* send raised: 276-283, logged, then the finally block
                   /\ SendRaises \/ ~proc_running
                   /\ Raise("send")
                   /\ sock_shut_wr' = TRUE /\ ipc' = "done" /\ UNCHANGED stdin_bytes
                \/ \* send accepted n bytes (they reach a process that still runs)
                   /\ ~SendRaises
                   /\ \E n \in 1..Len(request.data) :
                         stdin_bytes' = IF proc_running
                                        THEN stdin_bytes \o SubSeq(request.data, 1, n)
                                        ELSE stdin_bytes
                   /\ UNCHANGED << sock_shut_wr, ipc, faults >>
           ELSE UNCHANGED << sock_shut_wr, ipc, stdin_bytes, faults >>
    /\ UNCHANGED << clientVars, hpc, procVars, sock_rx, sock_closed, opc, output_queue,
                    stop_event, outbound, fixedVars, runtime_up, api_calls, exit_status >>

\* 278-283: the request stream ended: shutdown(1) of the write side
HI_End ==
    /\ impl = "main" /\ ipc = "run"
    /\ ~cancelled
    /\ req_pos = Len(requests) /\ ~inbound_open
    /\ sock_shut_wr' = TRUE
    /\ ipc' = "done"
    /\ UNCHANGED << clientVars, req_pos, hpc, procVars, sock_rx, sock_closed, stdin_bytes,
                    opc, output_queue, stop_event, outbound, fixedVars, runtime_up,
                    api_calls, exit_status, faults >>

\* 271, 276-283: the request iterator of a cancelled call raises: logged, then
\* the finally block
HI_Cancelled ==
    /\ impl = "main" /\ ipc = "run"
    /\ cancelled
    /\ Raise("request_iterator")
    /\ sock_shut_wr' = TRUE
    /\ ipc' = "done"
    /\ UNCHANGED << clientVars, req_pos, hpc, procVars, sock_rx, sock_closed, stdin_bytes,
                    opc, output_queue, stop_event, outbound, fixedVars, runtime_up,
                    api_calls, exit_status >>

\* 291-310: recv(4096) returned data: one item is queued for the whole buffer
HO_Recv ==
    /\ impl = "main" /\ opc = "recv"
    /\ RecvReady
    /\ \E k \in 1..Len(sock_rx) :
          /\ output_queue' = QueuePut(output_queue,
                                      HandleOutputItem(RecvData(k, start.interactive),
                                                       start.interactive))
          /\ sock_rx' = SubSeq(sock_rx, k + 1, Len(sock_rx))
    /\ UNCHANGED << clientVars, req_pos, hpc, procVars, sock_shut_wr, sock_closed,
                    stdin_bytes, ipc, opc, stop_event, outbound, fixedVars, runtime_up,
                    api_calls, exit_status, faults >>

\* 292-293, 316: end of stream: the end signal
HO_Eof ==
    /\ impl = "main" /\ opc = "recv"
    /\ RecvEof
    /\ output_queue' = QueuePut(output_queue, EndSignal)
    /\ opc' = "done"
    /\ UNCHANGED << clientVars, req_pos, hpc, procVars, sockVars, ipc, stop_event,
                    outbound, fixedVars, runtime_up, api_calls, exit_status, faults >>

\* 312-316: recv raised: logged, the loop is left, the end signal
HO_Error ==
    /\ impl = "main" /\ opc = "recv"
    /\ RecvRaises
    /\ Raise("recv")
    /\ output_queue' = QueuePut(output_queue, EndSignal)
    /\ opc' = "done"
    /\ UNCHANGED << clientVars, req_pos, hpc, procVars, sockVars, ipc, stop_event,
                    outbound, fixedVars, runtime_up, api_calls, exit_status >>

(***************************************************************************)
(* The environment: the exec'd process, the runtime connection, the client.*)
(***************************************************************************)
\* the process writes its next frame
P_Emit ==
    /\ proc_running /\ runtime_up
    /\ proc_todo # << >>
    /\ sock_rx' = Append(sock_rx, Head(proc_todo))
    /\ proc_emitted' = Append(proc_emitted, Head(proc_todo))
    /\ proc_todo' = Tail(proc_todo)
    /\ UNCHANGED << clientVars, req_pos, hpc, proc_running, proc_exit, sock_shut_wr,
                    sock_closed, stdin_bytes, pumpVars, outbound, fixedVars, runtime_up,
                    api_calls, exit_status, faults >>

\* the process exits, having written all it had to write
P_Exit ==
    /\ proc_running
    /\ proc_todo = << >>
    /\ proc_running' = FALSE
    /\ proc_exit' \in ProcExitCodes(requests)
    /\ UNCHANGED << clientVars, req_pos, hpc, proc_todo, proc_emitted, sockVars, pumpVars,
                    outbound, fixedVars, runtime_up, api_calls, exit_status, faults >>

\* the connection to the runtime is lost while the call is in progress
RuntimeDrop ==
    /\ runtime_up
    /\ hpc \notin {"first", "done"}
    /\ runtime_up' = FALSE
    /\ UNCHANGED << clientVars, req_pos, hpc, procVars, sockVars, pumpVars, outbound,
                    fixedVars, api_calls, exit_status, faults >>

\* the client half-closes the request stream
ClientHalfClose ==
    /\ inbound_open
    /\ inbound_open' = FALSE
    /\ UNCHANGED << requests, req_pos, hpc, procVars, sockVars, pumpVars, outbound,
                    fixedVars, runtime_up, api_calls, exit_status, faults >>

\* the client cancels the call while it is in progress
ClientCancel ==
    /\ ~cancelled
    /\ hpc \notin {"first", "done"}
    /\ cancelled' = TRUE
    /\ UNCHANGED << clientVars, req_pos, hpc, procVars, sockVars, pumpVars, outbound,
                    impl, container_status, demuxVars, auxVars, runtime_up, api_calls,
                    exit_status, faults >>


(***************************************************************************)
(* agent/grpc_server/servicer.py ExecContainer over                        *)
(* agent/services/exec_service.py ExecService: the handler.  The servicer  *)
(* turns every result of the service generator into one response at once,  *)
(* so a step of the generator and its response are one step.               *)
(***************************************************************************)
\* servicer.py 111-125: next(request_iterator) and the start check
S_First ==
    /\ impl = "servicer" /\ hpc = "first"
    /\ req_pos < Len(requests) \/ ~inbound_open
    /\ IF req_pos = Len(requests)
       THEN \* StopIteration, caught by the outer except (165-173)
            /\ Raise("request_iterator")
            /\ YieldTo(ServicerFailure, "done") /\ UNCHANGED req_pos
       ELSE LET first_request == requests[req_pos + 1]
            IN  /\ req_pos' = req_pos + 1
                /\ UNCHANGED faults
                /\ IF ~HasFieldStart(first_request)
                   THEN YieldTo(ServicerFailure, "done")
                   ELSE hpc' = "svc_get" /\ UNCHANGED outbound
    /\ UNCHANGED << clientVars, procVars, sockVars, pumpVars, fixedVars, runtime_up,
                    api_calls, exit_status >>

\* exec_service.py 49-70: containers.get, then the choice of the mode;
\* input_iterator is given exactly when start.interactive (servicer.py 144)
S_Get ==
    /\ impl = "servicer" /\ hpc = "svc_get"
    /\ Call("containers.get")
    /\ IF ~runtime_up \/ container_status = "absent"
       THEN Raise("runtime_client") /\ YieldTo(ServicerResponse(ErrorDict), "done")
       ELSE /\ hpc' = IF start.interactive THEN "svc_create" ELSE "svc_run"
            /\ UNCHANGED << outbound, faults >>
    /\ UNCHANGED << clientVars, req_pos, procVars, sockVars, pumpVars, fixedVars,
                    runtime_up, exit_status >>

\* the runtime refuses to create an exec: no connection, a container that is
\* not running, or no command
ExecCreateRefused == ~runtime_up \/ container_status # "running" \/ start.command = << >>

\* exec_service.py 92-107, 127-133: container.exec_run(stream=True, demux=True)
S_ExecRun ==
    /\ impl = "servicer" /\ hpc = "svc_run"
    /\ Call("exec_run")
    /\ IF ExecCreateRefused
       THEN /\ Raise("runtime_client") /\ YieldTo(ServicerResponse(ErrorDict), "done")
            /\ UNCHANGED proc_running
       ELSE proc_running' = TRUE /\ hpc' = "svc_stream" /\ UNCHANGED << outbound, faults >>
    /\ UNCHANGED << clientVars, req_pos, proc_todo, proc_emitted, proc_exit, sockVars,
                    pumpVars, fixedVars, runtime_up, exit_status >>

\* exec_service.py 110-115: one (stdout_chunk, stderr_chunk) pair of the demultiplexed
\* output: the runtime client yields one pair per frame, the other side None
S_StreamItem ==
    /\ impl = "servicer" /\ hpc = "svc_stream"
    /\ RecvReady
    /\ LET f == Head(sock_rx)
           stdout_chunk == IF f.tag = 1 THEN f.payload ELSE << >>
           stderr_chunk == IF f.tag = 2 THEN f.payload ELSE << >>
       IN  YieldTo(ServicerResponse(OutputDict(stdout_chunk, stderr_chunk, None)),
                   "svc_stream")
    /\ sock_rx' = Tail(sock_rx)
    /\ UNCHANGED << clientVars, req_pos, procVars, sock_shut_wr, sock_closed,
                    stdin_bytes, pumpVars, fixedVars, runtime_up, api_calls, exit_status,
                    faults >>

\* exec_result.exit_code of exec_run(stream=True): the runtime client returns
\* ExecResult(None, output) for a streamed exec
StreamedExitCode == None

\* exec_service.py 117-125: the output is exhausted: the exit-code result
S_StreamEnd ==
    /\ impl = "servicer" /\ hpc = "svc_stream"
    /\ RecvEof
    /\ YieldTo(ServicerResponse(OutputDict(<< >>, << >>, StreamedExitCode)), "done")
    /\ UNCHANGED << clientVars, req_pos, procVars, sockVars, pumpVars, fixedVars,
                    runtime_up, api_calls, exit_status, faults >>

\* exec_service.py 127-133: the output iterator raised
S_StreamError ==
    /\ impl = "servicer" /\ hpc = "svc_stream"
    /\ RecvRaises
    /\ Raise("recv")
    /\ YieldTo(ServicerResponse(ErrorDict), "done")
    /\ exit_status' = "lost"
    /\ UNCHANGED << clientVars, req_pos, procVars, sockVars, pumpVars, fixedVars,
                    runtime_up, api_calls >>

\* exec_service.py 157-170, 258-264: exec_create of the interactive mode
S_ExecCreate ==
    /\ impl = "servicer" /\ hpc = "svc_create"
    /\ Call("exec_create")
    /\ IF ExecCreateRefused
       THEN Raise("runtime_client") /\ YieldTo(ServicerResponse(ErrorDict), "done")
       ELSE hpc' = "svc_start" /\ UNCHANGED << outbound, faults >>
    /\ UNCHANGED << clientVars, req_pos, procVars, sockVars, pumpVars, fixedVars,
                    runtime_up, exit_status >>

\* exec_service.py 172-220: exec_start, the queue, the event, both threads started
S_ExecStart ==
    /\ impl = "servicer" /\ hpc = "svc_start"
    /\ Call("exec_start")
    /\ IF ~runtime_up
       THEN /\ Raise("runtime_client") /\ YieldTo(ServicerResponse(ErrorDict), "done")
            /\ UNCHANGED << proc_running, ipc, opc >>
       ELSE /\ proc_running' = TRUE
            /\ opc' = "run" /\ ipc' = "run"
            /\ hpc' = "svc_loop"
            /\ UNCHANGED << outbound, faults >>
    /\ UNCHANGED << clientVars, req_pos, proc_todo, proc_emitted, proc_exit, sockVars,
                    output_queue, stop_event, fixedVars, runtime_up, exit_status >>

\* a pump that leaves an empty chunk where its end item should be
DoneItem_Mut == << "output", << >> >>

\* the item read_output leaves when it ends: ('done', None)
DoneItem == << "done", << >> >>

\* exec_service.py 223-235: an item taken from the queue (an empty poll changes nothing)
S_QueueGet ==
    /\ impl = "servicer" /\ hpc = "svc_loop"
    /\ output_queue # << >>
    /\ LET msg_type == Head(output_queue)[1]
           data == Head(output_queue)[2]
       IN  /\ output_queue' = Tail(output_queue)
           /\ IF msg_type = "done"
              THEN hpc' = "svc_exit" /\ UNCHANGED outbound
              ELSE YieldTo(ServicerResponse(OutputDict(data, << >>, None)), "svc_loop")
    /\ UNCHANGED << clientVars, req_pos, procVars, sockVars, ipc, opc, stop_event,
                    fixedVars, runtime_up, api_calls, exit_status, faults >>

\* exec_service.py 237-250, 258-264: stop_event.set(), exec_inspect, the exit-code result
S_Exit ==
    /\ impl = "servicer" /\ hpc = "svc_exit"
    /\ stop_event' = TRUE
    /\ Call("exec_inspect")
    /\ IF runtime_up
       THEN /\ YieldTo(ServicerResponse(OutputDict(<< >>, << >>, InspectExitCode)),
                       "svc_close")
            /\ exit_status' = "obtained" /\ UNCHANGED faults
       ELSE /\ Raise("runtime_client")
            /\ YieldTo(ServicerResponse(ErrorDict), "done")
            /\ exit_status' = "lost"
    /\ UNCHANGED << clientVars, req_pos, procVars, sockVars, ipc, opc, output_queue,
                    fixedVars, runtime_up >>

\* exec_service.py 252-256: sock.close()
S_Close ==
    /\ impl = "servicer" /\ hpc = "svc_close"
    /\ sock_closed' = sock_closed + 1
    /\ hpc' = "done"
    /\ UNCHANGED << clientVars, req_pos, procVars, sock_rx, sock_shut_wr, stdin_bytes,
                    pumpVars, outbound, fixedVars, runtime_up, api_calls, exit_status,
                    faults >>

(***************************************************************************)
(* exec_service.py: the threads read_output and write_input.               *)
(***************************************************************************)
\* 189: the loop test on stop_event; 201-202: the finally block
RO_Loop ==
    /\ impl = "servicer" /\ opc = "run"
    /\ IF stop_event
       THEN output_queue' = QueuePut(output_queue, DoneItem) /\ opc' = "done"
       ELSE opc' = "recv" /\ UNCHANGED output_queue
    /\ UNCHANGED << clientVars, req_pos, hpc, procVars, sockVars, ipc, stop_event,
                    outbound, fixedVars, runtime_up, api_calls, exit_status, faults >>

\* 191-194: recv(4096) returned data (a TTY: raw bytes)
RO_Recv ==
    /\ impl = "servicer" /\ opc = "recv"
    /\ RecvReady
    /\ \E k \in 1..Len(sock_rx) :
          /\ output_queue' = QueuePut(output_queue, << "output", RecvData(k, TRUE) >>)
          /\ sock_rx' = SubSeq(sock_rx, k + 1, Len(sock_rx))
    /\ opc' = "run"
    /\ UNCHANGED << clientVars, req_pos, hpc, procVars, sock_shut_wr, sock_closed,
                    stdin_bytes, ipc, stop_event, outbound, fixedVars, runtime_up,
                    api_calls, exit_status, faults >>

\* 192-193, 201-202: end of stream
RO_Eof ==
    /\ impl = "servicer" /\ opc = "recv"
    /\ RecvEof
    /\ output_queue' = QueuePut(output_queue, DoneItem)
    /\ opc' = "done"
    /\ UNCHANGED << clientVars, req_pos, hpc, procVars, sockVars, ipc, stop_event,
                    outbound, fixedVars, runtime_up, api_calls, exit_status, faults >>

\* 195-202: recv raised
RO_Error ==
    /\ impl = "servicer" /\ opc = "recv"
    /\ RecvRaises
    /\ Raise("recv")
    /\ output_queue' = QueuePut(output_queue, DoneItem)
    /\ opc' = "done"
    /\ UNCHANGED << clientVars, req_pos, hpc, procVars, sockVars, ipc, stop_event,
                    outbound, fixedVars, runtime_up, api_calls, exit_status >>

\* servicer.py 128-134 and exec_service.py 207-213: one inbound message through
\* input_generator into write_input, which writes with sendall
WI_Next ==
    /\ impl = "servicer" /\ ipc = "run"
    /\ ~cancelled
    /\ req_pos < Len(requests)
    /\ req_pos' = req_pos + 1
    /\ LET req == requests[req_pos + 1]
       IN  IF req.kind = "input"
           THEN IF stop_event
                THEN ipc' = "done" /\ UNCHANGED << stdin_bytes, faults >>
                ELSE IF req.data # << >>
                     THEN \/ /\ SendRaises \/ ~proc_running
                             /\ Raise("send")
                             /\ ipc' = "done" /\ UNCHANGED stdin_bytes
                          \/ /\ ~SendRaises
                             /\ stdin_bytes' = IF proc_running
                                               THEN stdin_bytes \o req.data
                                               ELSE stdin_bytes
                             /\ UNCHANGED << ipc, faults >>
                     ELSE UNCHANGED << ipc, stdin_bytes, faults >>
           ELSE UNCHANGED << ipc, stdin_bytes, faults >>
    /\ UNCHANGED << clientVars, hpc, procVars, sock_rx, sock_shut_wr, sock_closed, opc,
                    output_queue, stop_event, outbound, fixedVars, runtime_up, api_calls,
                    exit_status >>

\* the request stream ended: input_generator and write_input return
WI_End ==
    /\ impl = "servicer" /\ ipc = "run"
    /\ ~cancelled
    /\ req_pos = Len(requests) /\ ~inbound_open
    /\ ipc' = "done"
    /\ UNCHANGED << clientVars, req_pos, hpc, procVars, sockVars, opc, output_queue,
                    stop_event, outbound, fixedVars, runtime_up, api_calls, exit_status,
                    faults >>

\* servicer.py 129-134: the request iterator of a cancelled call raises inside
\* input_generator, which logs it and ends; write_input returns
WI_Cancelled ==
    /\ impl = "servicer" /\ ipc = "run"
    /\ cancelled
    /\ Raise("request_iterator")
    /\ ipc' = "done"
    /\ UNCHANGED << clientVars, req_pos, hpc, procVars, sockVars, opc, output_queue,
                    stop_event, outbound, fixedVars, runtime_up, api_calls, exit_status >>

MainHandler ==
    \/ M_First \/ M_Lookup \/ M_ExecCreate \/ M_ExecStart \/ M_StartThreads
    \/ M_QueueGet \/ M_QueueEmpty \/ M_Final \/ M_Cleanup

MainPumps == HI_Next \/ HI_End \/ HO_Recv \/ HO_Eof \/ HO_Error

ServicerHandler ==
    \/ S_First \/ S_Get \/ S_ExecRun \/ S_StreamItem \/ S_StreamEnd \/ S_StreamError
    \/ S_ExecCreate \/ S_ExecStart \/ S_QueueGet \/ S_Exit \/ S_Close

ServicerPumps == RO_Loop \/ RO_Recv \/ RO_Eof \/ RO_Error \/ WI_Next \/ WI_End

Environment == P_Emit \/ P_Exit \/ RuntimeDrop \/ ClientHalfClose

\* one exec call that the client does not cancel
Next == MainHandler \/ MainPumps \/ ServicerHandler \/ ServicerPumps \/ Environment

Spec == Init /\ [][Next]_vars

(***************************************************************************)
(* One exec call that the client may cancel.  The threads of the agent     *)
(* are scheduled fairly: a step of the handler or of a pump that stays     *)
(* possible is taken.  Nothing is assumed of the process, the runtime      *)
(* connection or the client.                                               *)
(***************************************************************************)
\* a started call on a running container
CancelInit ==
    /\ Init
    /\ requests # << >>
    /\ requests[1].kind = "start" /\ requests[1].command # << >>
    /\ container_status = "running"

Cancellation == ClientCancel \/ HI_Cancelled \/ WI_Cancelled

CancelNext == Next \/ Cancellation

Agent ==
    \/ MainHandler \/ MainPumps \/ ServicerHandler \/ ServicerPumps
    \/ HI_Cancelled \/ WI_Cancelled

CancelSpec == CancelInit /\ [][CancelNext]_vars /\ WF_vars(Agent)



(***************************************************************************)
(* Properties.                                                             *)
(***************************************************************************)
Last(s) == s[Len(s)]

IsFinished(m) == m.type = "status" /\ m.finished

FinishedPositions == { i \in 1..Len(outbound) : IsFinished(outbound[i]) }

RECURSIVE OutputBytes(_)
\* the bytes of the output messages of a response stream, in order
OutputBytes(msgs) ==
    IF msgs = << >> THEN << >>
    ELSE (IF Head(msgs).type = "output" THEN Head(msgs).data ELSE << >>)
         \o OutputBytes(Tail(msgs))

\* the calls that create or run an exec in the runtime
ExecApi == {"exec_create", "exec_start", "exec_run"}

HandlerDone == hpc = "done"
FirstIsStart == requests # << >> /\ requests[1].kind = "start"
FirstNotStart == requests # << >> /\ requests[1].kind # "start"
ValidStart == FirstIsStart /\ requests[1].command # << >>

\* C1: when an ExecContainer call has ended, whatever its path, its response
\* stream holds exactly one status message with finished=true, and that
\* message is the last one of the stream.
C1_ExactlyOneFinishedLast ==
    HandlerDone =>
        /\ Cardinality(FinishedPositions) = 1
        /\ IsFinished(Last(outbound))

\* C2: in a call whose inbound stream is the start message alone and has been
\* closed, once the handler has ended with the runtime connection alive, the bytes of the
\* output messages are all the bytes the process wrote, and no output message
\* follows a status with finished=true.
C2_NoInputAllOutputDelivered ==
    (HandlerDone /\ FirstIsStart /\ Len(requests) = 1 /\ ~inbound_open /\ runtime_up) =>
        /\ OutputBytes(outbound) = RawBytes(proc_emitted)
        /\ \A i \in FinishedPositions : \A j \in 1..Len(outbound) :
              outbound[j].type = "output" => j < i

\* the chunks the frames of a buffer stand for
ExpectedChunks(fs) == [i \in 1..Len(fs) |-> << StreamName(fs[i].tag), fs[i].payload >>]

\* the buffer went through frame parsing: the non-interactive exec output pump,
\* or the GetLogs loop with both streams requested
FramesParsed ==
    \/ dpc = "exec" /\ ~interactive_mode
    \/ dpc = "logs" /\ LogsStdout(req_stdout, req_stderr) /\ LogsStderr(req_stdout, req_stderr)

\* every frame of the buffer carries payload bytes
FramesCarryBytes == \A i \in 1..Len(frames) : frames[i].payload # << >>

\* C3: a buffer that is the concatenation of n valid frames (each with a
\* non-empty payload) yields exactly n chunks, in order, each with its frame's
\* payload and stream kind.
C3_ValidFramesAllYielded ==
    (FramesParsed /\ tail.kind = "none" /\ FramesCarryBytes) =>
        chunks = ExpectedChunks(frames)

\* C4: a buffer of complete valid frames followed by a truncated frame (its
\* header and some payload bytes) yields every complete frame as its own chunk,
\* then one stdout chunk holding the whole truncated remainder, header included.
C4_TruncatedTailIsStdoutRemainder ==
    (FramesParsed /\ tail.kind = "truncated" /\ Len(tail.bytes) > 8 /\ FramesCarryBytes) =>
        chunks = ExpectedChunks(frames) \o << << "stdout", tail.bytes >> >>

\* C5: a buffer of more than 8 bytes whose first byte is neither 1 nor 2 is
\* emitted as one stdout chunk holding the whole buffer unchanged.
C5_BadTagWholeBufferStdout ==
    (FramesParsed /\ frames = << >> /\ tail.kind = "badtag" /\ Len(tail.bytes) > 8) =>
        chunks = << << "stdout", Buffer >> >>

C7_EmptyCommandRejected ==
    (FirstIsStart /\ requests[1].command = << >> /\ container_status = "running") =>
        /\ api_calls \cap ExecApi = {}
        /\ HandlerDone =>
              /\ outbound # << >>
              /\ Last(outbound).type = "status" /\ ~Last(outbound).success

\* C8: an exec against an existing container that is not running produces a
\* single status message with success=false and finished=true, and no output.
C8_StoppedContainerSingleFailure ==
    (HandlerDone /\ ValidStart /\ container_status = "exited") =>
        /\ Len(outbound) = 1
        /\ outbound[1].type = "status"
        /\ ~outbound[1].success
        /\ outbound[1].finished

\* C9: an exec whose target the runtime does not know ends with a status with
\* success=false; no status with success=true is sent and no exec is created.
C9_UnknownTargetFails ==
    (ValidStart /\ container_status = "absent") =>
        /\ api_calls \cap ExecApi = {}
        /\ \A i \in 1..Len(outbound) :
              outbound[i].type = "status" => ~outbound[i].success
        /\ HandlerDone =>
              /\ outbound # << >>
              /\ Last(outbound).type = "status" /\ ~Last(outbound).success

\* C10: if the runtime connection is lost before the exit status is obtained,
\* the call's last message is a status with success=false and exit code -1.
C10_LostConnectionFailsMinusOne ==
    (HandlerDone /\ exit_status = "lost") =>
        /\ outbound # << >>
        /\ Last(outbound).type = "status"
        /\ ~Last(outbound).success
        /\ Last(outbound).exit_code = -1

\* the faults a pump thread catches: a read of the output pump, a write of the
\* input pump
PumpFaults == {"recv", "send"}

\* the step of the handler that sends the terminal status of a started exec
TerminalStep == hpc \in {"final", "svc_exit"} /\ hpc' # hpc

\* C11: when a read of the output pump or a write of the input pump has raised
\* (and was caught in the pump), the terminal status the handler then sends is
\* a failure: success=false and finished=true.
C11_PumpFaultEndsInFailure ==
    [][(TerminalStep /\ faults \cap PumpFaults # {}) =>
          /\ outbound' # << >>
          /\ Last(outbound').type = "status"
          /\ ~Last(outbound').success
          /\ Last(outbound').finished]_vars

\* exec_start returned the runtime socket of the exec
ExecSocketObtained == hpc = "threads" \/ opc # "idle"

\* C12: when the handler of an exec call that obtained a runtime socket has
\* ended, on whatever path, that socket has been closed exactly once.
C12_SocketClosedExactlyOnce ==
    (HandlerDone /\ ExecSocketObtained) => sock_closed = 1

\* C13: when the exec handler has returned (here: with the runtime connection
\* alive all along), both pump threads have terminated.
C13_PumpsTerminatedAtReturn ==
    (HandlerDone /\ ExecSocketObtained /\ runtime_up) => (ipc = "done" /\ opc = "done")

\* the handler has left its forwarding loop
RelayEnded ==
    /\ opc # "idle"
    /\ hpc \in {"final", "cleanup", "svc_exit", "svc_close", "done"}

\* the end-of-stream signal of the output pump is in the queue, not yet taken
EndSignalPending ==
    \E i \in 1..Len(output_queue) : output_queue[i] \in {EndSignal, DoneItem}

\* C15: the handler leaves its forwarding loop, and goes on to the terminal
\* status, only once the output pump has signalled end-of-stream and the handler
\* has taken that signal; nothing else ends the relay.
C15_RelayEndsOnlyOnEndOfStream ==
    RelayEnded => (opc = "done" /\ ~EndSignalPending)

\* C16: in a non-interactive exec no byte of an input message is written to
\* the stdin of the process.
C16_NonInteractiveIgnoresInput ==
    (FirstIsStart /\ ~start.interactive) => stdin_bytes = << >>

\* the payloads of the input messages among msgs, concatenated in order
RECURSIVE InputBytes(_)
InputBytes(msgs) ==
    IF msgs = << >> THEN << >>
    ELSE (IF Head(msgs).kind = "input" THEN Head(msgs).data ELSE << >>)
         \o InputBytes(Tail(msgs))

\* C17: in an interactive exec, while the process runs and the input pump is
\* at work, the bytes written to the stdin of the process are the payloads of
\* the input messages taken so far, concatenated in order of arrival.
C17_StdinIsConcatenationOfInputs ==
    (FirstIsStart /\ start.interactive /\ ipc = "run" /\ proc_running /\ runtime_up) =>
        stdin_bytes = InputBytes(SubSeq(requests, 2, req_pos))

\* the frames whose bytes were read from the runtime socket
FramesRead == SubSeq(proc_emitted, 1, Len(proc_emitted) - Len(sock_rx))

\* C18: when an interactive (TTY) exec has ended, the data of its output
\* messages, concatenated, is the byte sequence read from the runtime socket,
\* and every output message is tagged stdout.
C18_TtyOutputIsRawSocketBytes ==
    (HandlerDone /\ FirstIsStart /\ start.interactive /\ ExecSocketObtained /\ runtime_up) =>
        /\ OutputBytes(outbound) = RawBytes(FramesRead)
        /\ \A i \in 1..Len(outbound) :
              outbound[i].type = "output" => outbound[i].stream_type = "stdout"

\* C19: no log entry (and no output message) with an empty payload is sent:
\* every entry the GetLogs loop makes of a chunk carries at least one byte.
C19_NoEmptyPayloadSent ==
    dpc = "logs" => \A i \in 1..Len(chunks) : chunks[i][2] # << >>

\* C14: if the client cancels while the process of a started exec still runs,
\* the runtime socket is eventually closed and the output pump eventually stops.
C14_CancelClosesSocketAndStopsPump ==
    (cancelled /\ proc_running /\ ExecSocketObtained) ~> (sock_closed > 0 /\ opc = "done")

\* the exceptions raised in the handler itself: by a call of the runtime client,
\* or by the request iterator
HandlerFaults == {"runtime_client", "request_iterator"}

\* C20: an exception raised in the exec handler (of a call with a valid start)
\* by the runtime client or by the request iterator does not escape it: when
\* the call has ended, the response stream holds a status message with
\* success=false.
C20_HandlerFaultBecomesFailure ==
    (HandlerDone /\ ValidStart /\ faults \cap HandlerFaults # {}) =>
        \E i \in 1..Len(outbound) :
            outbound[i].type = "status" /\ ~outbound[i].success

\* C27: a non-interactive exec of ["echo", "hi"] on a running container, run
\* to its end with the runtime connection alive, produces exactly one stdout
\* output message with payload "hi\n", followed by exactly one status message
\* with success=true, exit_code=0 and finished=true, and no other message.
C27_EchoHiOneOutputOneStatus ==
    (HandlerDone /\ RunsEchoHi(requests) /\ ~start.interactive
        /\ Len(requests) = 1 /\ container_status = "running" /\ runtime_up) =>
        LET sent == SelectSeq(outbound, LAMBDA m : m.type = "output" \/ m.finished)
        IN  /\ sent = << Output(HiFrame.payload, "stdout"), Status(TRUE, Some(0), TRUE) >>
            /\ \A i \in 1..Len(outbound) :
                  outbound[i].type = "status" /\ ~outbound[i].finished => i = 1

\* the request stream has ended and the input pump has returned on that
InputEnded ==
    /\ ipc = "done" /\ ~inbound_open /\ req_pos = Len(requests)
    /\ faults \cap {"send", "request_iterator"} = {} /\ ~stop_event

\* C30: when the inbound request stream of an exec call has ended, the input
\* pump has shut down the write side of the runtime socket, and only that side:
\* the socket is not closed by the pump and the output pump reads on.
C30_InputEndHalfClosesWriteSide ==
    (InputEnded /\ hpc \in {"loop", "svc_loop"}) => (sock_shut_wr /\ sock_closed = 0)


(***************************************************************************)
(* GetLogs: the since parameter.  agent/main.py 453-472 and                *)
(* agent/services/logs_service.py LogsService._parse_since.                *)
(***************************************************************************)
MaxSince == 3       \* characters of a since value

\* datetime.utcnow(), in seconds
Now == 100000000

SinceChars == {"0", "1", "3", "s", "m", "h", "d", "a", "b", "c"}
Digits == {"0", "1", "3"}
SinceValues == SeqsUpTo(SinceChars, MaxSince)

DigitValue(c) == CASE c = "0" -> 0 [] c = "1" -> 1 [] c = "3" -> 3

\* str[:-1] and str[-1] of a non-empty string
ButLast(str) == SubSeq(str, 1, Len(str) - 1)
LastChar(str) == str[Len(str)]

\* the string is one that \d+ matches whole and int() accepts
IsDigits(str) == str # << >> /\ \A i \in 1..Len(str) : str[i] \in Digits

\* int(str) of a string of digits
RECURSIVE IntOf(_)
IntOf(str) ==
    IF str = << >> THEN 0 ELSE 10 * IntOf(ButLast(str)) + DigitValue(LastChar(str))

\* a unit that takes every duration for a number of seconds
UnitSeconds_Mut(unit) == 1

\* timedelta(seconds=1), (minutes=1), (hours=1), (days=1), in seconds
UnitSeconds(unit) ==
    CASE unit = "s" -> 1 [] unit = "m" -> 60 [] unit = "h" -> 3600 [] unit = "d" -> 86400

\* main.py 454-471: re.match(r'^(\d+)([smhd])$', since), else since_datetime stays None
ParseSinceMain(str) ==
    IF str # << >> /\ Len(str) >= 2 /\ IsDigits(ButLast(str))
                  /\ LastChar(str) \in {"s", "m", "h", "d"}
    THEN Some(Now - IntOf(ButLast(str)) * UnitSeconds(LastChar(str)))
    ELSE None

\* logs_service.py 53, 91-110: the endswith chain; int() or fromisoformat()
\* raising is caught and gives None
ParseSinceService(str) ==
    IF str = << >> THEN None
    ELSE IF LastChar(str) \in {"s", "m", "h", "d"}
         THEN IF IsDigits(ButLast(str))
              THEN Some(Now - IntOf(ButLast(str)) * UnitSeconds(LastChar(str)))
              ELSE None
         ELSE None

ParseSince(str) == IF impl = "main" THEN ParseSinceMain(str) ELSE ParseSinceService(str)

SinceInit ==
    /\ DemuxIdle /\ CliIdle /\ AuthIdle /\ ExtIdle
    /\ impl \in {"main", "servicer"} /\ container_status = "running" /\ requests = << >>
    /\ req_pos = 0 /\ inbound_open = FALSE /\ hpc = "since" /\ ipc = "idle" /\ opc = "idle"
    /\ proc_todo = << >> /\ proc_emitted = << >> /\ proc_running = FALSE /\ proc_exit = 0
    /\ sock_rx = << >> /\ sock_shut_wr = FALSE /\ sock_closed = 0 /\ stdin_bytes = << >>
    /\ output_queue = << >> /\ stop_event = FALSE /\ outbound = << >> /\ runtime_up = TRUE
    /\ api_calls = {} /\ exit_status = "none" /\ faults = {} /\ cancelled = FALSE
    /\ follow = FALSE /\ log_todo = << >> /\ log_read = << >> /\ log_open = FALSE
    /\ log_args = << >>
    /\ since \in SinceValues
    /\ since_time = "unset"

\* the since value is parsed
SinceParse ==
    /\ hpc = "since"
    /\ since_time' = ParseSince(since)
    /\ hpc' = "since_done"
    /\ UNCHANGED << impl, container_status, requests, req_pos, inbound_open, ipc, opc,
                    procVars, sockVars, output_queue, stop_event, outbound, runtime_up,
                    api_calls, exit_status, faults, cancelled, demuxVars, follow,
                    log_todo, log_read, log_open, log_args, since, cliVars, authVars,
                    extVars >>

SinceSpec == SinceInit /\ [][SinceParse]_vars

\* the number of seconds of one unit of a duration
SecondsOf(unit) == IF unit = "s" THEN 1 ELSE IF unit = "m" THEN 60
                   ELSE IF unit = "h" THEN 60 * 60 ELSE 24 * 60 * 60

\* the value has the form <N><unit>, unit one of s, m, h, d
IsDuration(str) ==
    /\ Len(str) >= 2
    /\ str[Len(str)] \in {"s", "m", "h", "d"}
    /\ \A i \in 1..(Len(str) - 1) : str[i] \in {"0", "1", "3"}

\* N of a value <N><unit>, read digit by digit from the left
RECURSIVE NumberAt(_, _)
NumberAt(str, n) ==
    IF n = 0 THEN 0 ELSE 10 * NumberAt(str, n - 1) + DigitValue(str[n])

\* C25: a since value <N><unit> is translated to now minus N of that unit; any
\* other value of the model (such as "abc") yields no lower bound, and no
\* exception is raised.
C25_SinceIsNowMinusDuration ==
    hpc = "since_done" =>
        /\ faults = {}
        /\ IF IsDuration(since)
           THEN since_time = << Now - NumberAt(since, Len(since) - 1) * SecondsOf(since[Len(since)]) >>
           ELSE since_time = None

\* C25: "30m" was parsed to now minus 30 minutes
C25_Witness ==
    hpc = "since_done" /\ since = << "3", "0", "m" >> /\ since_time = << Now - 1800 >>


(***************************************************************************)
(* One GetLogs call: agent/main.py DockyardServicer.GetLogs, and           *)
(* agent/grpc_server/servicer.py GetLogs over                              *)
(* agent/services/logs_service.py LogsService.get_logs.  The request asks  *)
(* for no timestamps.                                                      *)
(***************************************************************************)
MaxLogChunks == 2   \* chunks the runtime delivers on the log stream

LogsStatus(success, finished) ==
    [type |-> "status", success |-> success, exit_code |-> 0, finished |-> finished,
     data |-> << >>, stream_type |-> ""]

LogEntry(data, stream_type) ==
    [type |-> "log", success |-> FALSE, exit_code |-> 0, finished |-> FALSE,
     data |-> data, stream_type |-> stream_type]

\* a chunk of the log stream: one frame of the stderr stream, or unframed bytes
LogChunkSet == { EncodeFrame([tag |-> 2, payload |-> << 66 >>]), << 72 >> }

\* since values of the calls: none, "1h", "abc"
LogsSinceValues == { << >>, << "1", "h" >>, << "a", "b", "c" >> }

RECURSIVE Flatten(_)
Flatten(ss) == IF ss = << >> THEN << >> ELSE Head(ss) \o Flatten(Tail(ss))

\* a handler that never sends the finished status
FinishedWanted_Mut(f) == FALSE

\* main.py 557, servicer.py 203: the finished status is for non-follow mode
FinishedWanted(f) == ~f

\* the runtime rejects a logs request that selects neither stream
LogsRefused(stdout, stderr) == ~stdout /\ ~stderr

LogsInit ==
    /\ CliIdle /\ AuthIdle /\ ExtIdle
    /\ dpc = "off" /\ frames = << >> /\ tail = [kind |-> "none", bytes |-> << >>]
    /\ interactive_mode = FALSE /\ chunks = << >>
    /\ requests = << >> /\ req_pos = 0 /\ inbound_open = FALSE /\ ipc = "idle" /\ opc = "idle"
    /\ proc_todo = << >> /\ proc_emitted = << >> /\ proc_running = FALSE /\ proc_exit = 0
    /\ sock_rx = << >> /\ sock_shut_wr = FALSE /\ sock_closed = 0 /\ stdin_bytes = << >>
    /\ output_queue = << >> /\ stop_event = FALSE /\ exit_status = "none"
    /\ impl \in {"main", "servicer"}
    /\ container_status \in {"absent", "exited", "running"}
    /\ req_stdout \in BOOLEAN
    /\ req_stderr \in BOOLEAN
    /\ follow \in BOOLEAN
    /\ since \in LogsSinceValues
    /\ log_todo \in SeqsUpTo(LogChunkSet, MaxLogChunks)
    /\ log_read = << >>
    /\ log_open = follow
    /\ log_args = None
    /\ since_time = "unset"
    /\ hpc = "logs_start"
    /\ outbound = << >> /\ runtime_up = TRUE /\ api_calls = {} /\ faults = {}
    /\ cancelled = FALSE

\* what no step of a GetLogs call changes
logsFixed == << impl, container_status, requests, req_pos, inbound_open, ipc, opc, procVars,
               sockVars, output_queue, stop_event, exit_status, cancelled, demuxVars,
               follow, since, cliVars, authVars, extVars >>

\* main.py 424-480: the flags, containers.get, the since value, the initial status
L_Start ==
    /\ impl = "main" /\ hpc = "logs_start"
    /\ Call("containers.get")
    /\ IF ~runtime_up
       THEN \* caught by the outer except, 576-584
            /\ Raise("runtime_client")
            /\ YieldTo(LogsStatus(FALSE, TRUE), "done")
            /\ UNCHANGED since_time
       ELSE IF container_status = "absent"
            THEN \* NotFound, 444-451
                 /\ Raise("runtime_client")
                 /\ YieldTo(LogsStatus(FALSE, FALSE), "done")
                 /\ UNCHANGED since_time
            ELSE /\ since_time' = ParseSinceMain(since)
                 /\ YieldTo(LogsStatus(TRUE, FALSE), "logs_open")
                 /\ UNCHANGED faults
    /\ UNCHANGED << logsFixed, runtime_up, log_todo, log_read, log_open, log_args >>

\* main.py 482-492: container.logs(stdout, stderr, stream=True, follow, since, ...)
L_Open ==
    /\ impl = "main" /\ hpc = "logs_open"
    /\ Call("logs")
    /\ log_args' = Some([stdout |-> LogsStdout(req_stdout, req_stderr),
                         stderr |-> LogsStderr(req_stdout, req_stderr),
                         since |-> since_time])
    /\ IF ~runtime_up
       THEN Raise("runtime_client") /\ YieldTo(LogsStatus(FALSE, TRUE), "done")
       ELSE hpc' = "logs_stream" /\ UNCHANGED << outbound, faults >>
    /\ UNCHANGED << logsFixed, runtime_up, log_todo, log_read, log_open, since_time >>

\* main.py 495-554: one chunk of the log stream becomes one log entry
L_Item ==
    /\ impl = "main" /\ hpc = "logs_stream"
    /\ runtime_up /\ log_todo # << >>
    /\ LET log_line == Head(log_todo)
           entry == GetLogsEntry(log_line, LogsStdout(req_stdout, req_stderr),
                                 LogsStderr(req_stdout, req_stderr))
       IN  IF log_line = << >>
           THEN UNCHANGED << hpc, outbound >>
           ELSE YieldTo(LogEntry(entry[2], entry[1]), "logs_stream")
    /\ log_read' = Append(log_read, Head(log_todo))
    /\ log_todo' = Tail(log_todo)
    /\ UNCHANGED << logsFixed, runtime_up, api_calls, faults, log_open, log_args,
                    since_time >>

\* main.py 556-564: the log stream is exhausted
L_End ==
    /\ impl = "main" /\ hpc = "logs_stream"
    /\ runtime_up /\ log_todo = << >> /\ ~log_open
    /\ IF FinishedWanted(follow)
       THEN YieldTo(LogsStatus(TRUE, TRUE), "done")
       ELSE hpc' = "done" /\ UNCHANGED outbound
    /\ UNCHANGED << logsFixed, runtime_up, api_calls, faults, log_todo, log_read, log_open,
                    log_args, since_time >>

\* main.py 566-574: the log stream raised
L_Error ==
    /\ impl = "main" /\ hpc = "logs_stream"
    /\ ~runtime_up
    /\ Raise("runtime_client")
    /\ YieldTo(LogsStatus(FALSE, TRUE), "done")
    /\ UNCHANGED << logsFixed, runtime_up, api_calls, log_todo, log_read, log_open,
                    log_args, since_time >>

(***************************************************************************)
(* servicer.py GetLogs over logs_service.py get_logs: every result of the  *)
(* service generator becomes one log entry at once.                        *)
(***************************************************************************)
\* logs_service.py 48-80 up to the first result, servicer.py 185-200:
\* containers.get, the since value, container.logs(stdout, stderr,
\* stream=follow, follow, since, ...) with the flags of the request
SL_Start ==
    /\ impl = "servicer" /\ hpc = "logs_start"
    /\ IF ~runtime_up \/ container_status = "absent"
       THEN \* logs_service.py 77-80: the error text is a result like any other
            /\ Call("containers.get")
            /\ Raise("runtime_client")
            /\ YieldTo(LogEntry(ErrorText, "stdout"), "logs_finish")
            /\ UNCHANGED << since_time, log_args, log_todo, log_read >>
       ELSE /\ api_calls' = api_calls \cup {"containers.get", "logs"}
            /\ since_time' = (IF since # << >> THEN ParseSinceService(since) ELSE None)
            /\ log_args' = Some([stdout |-> req_stdout, stderr |-> req_stderr,
                                 since |-> since_time'])
            /\ IF LogsRefused(req_stdout, req_stderr)
               THEN /\ Raise("runtime_client")
                    /\ YieldTo(LogEntry(ErrorText, "stdout"), "logs_finish")
                    /\ UNCHANGED << log_todo, log_read >>
               ELSE IF follow
                    THEN /\ hpc' = "logs_stream"
                         /\ UNCHANGED << outbound, faults, log_todo, log_read >>
                    ELSE \* 71-73: stream=False returns all the bytes as one value
                         /\ log_read' = << Flatten(log_todo) >>
                         /\ log_todo' = << >>
                         /\ YieldTo(LogEntry(Flatten(log_todo), "stdout"), "logs_finish")
                         /\ UNCHANGED faults
    /\ UNCHANGED << logsFixed, runtime_up, log_open >>

\* logs_service.py 66-70, servicer.py 186-200: one chunk of the followed stream
SL_Item ==
    /\ impl = "servicer" /\ hpc = "logs_stream"
    /\ runtime_up /\ log_todo # << >>
    /\ YieldTo(LogEntry(Head(log_todo), "stdout"), "logs_stream")
    /\ log_read' = Append(log_read, Head(log_todo))
    /\ log_todo' = Tail(log_todo)
    /\ UNCHANGED << logsFixed, runtime_up, api_calls, faults, log_open, log_args,
                    since_time >>

\* logs_service.py 69, 75: the followed stream is exhausted
SL_End ==
    /\ impl = "servicer" /\ hpc = "logs_stream"
    /\ runtime_up /\ log_todo = << >> /\ ~log_open
    /\ hpc' = "logs_finish"
    /\ UNCHANGED << logsFixed, runtime_up, api_calls, faults, outbound, log_todo, log_read,
                    log_open, log_args, since_time >>

\* logs_service.py 69, 77-80: the followed stream raised
SL_Error ==
    /\ impl = "servicer" /\ hpc = "logs_stream"
    /\ ~runtime_up
    /\ Raise("runtime_client")
    /\ YieldTo(LogEntry(ErrorText, "stdout"), "logs_finish")
    /\ UNCHANGED << logsFixed, runtime_up, api_calls, log_todo, log_read, log_open,
                    log_args, since_time >>

\* servicer.py 202-210: after the last result of the service
SL_Finish ==
    /\ impl = "servicer" /\ hpc = "logs_finish"
    /\ IF FinishedWanted(follow)
       THEN YieldTo(LogsStatus(TRUE, TRUE), "done")
       ELSE hpc' = "done" /\ UNCHANGED outbound
    /\ UNCHANGED << logsFixed, runtime_up, api_calls, faults, log_todo, log_read, log_open,
                    log_args, since_time >>

\* the container stops: the runtime ends the followed log stream
LogsClose ==
    /\ log_open /\ hpc # "done"
    /\ log_open' = FALSE
    /\ UNCHANGED << execVars, demuxVars, follow, log_todo, log_read, log_args, since,
                    since_time, cliVars, authVars, extVars >>

LogsNext ==
    \/ L_Start \/ L_Open \/ L_Item \/ L_End \/ L_Error
    \/ SL_Start \/ SL_Item \/ SL_End \/ SL_Error \/ SL_Finish
    \/ LogsClose \/ RuntimeDrop \/ ClientCancel

LogsSpec == LogsInit /\ [][LogsNext]_vars

(***************************************************************************)
(* Properties of a GetLogs call.                                           *)
(***************************************************************************)
IsLogEntry(m) == m.type = "log"
LogEntries(msgs) == SelectSeq(msgs, IsLogEntry)
FinishedCount(msgs) == Len(SelectSeq(msgs, IsFinished))

\* C21: a GetLogs call with follow=false whose logs request was made and
\* that was not cancelled ends its response stream with exactly one status
\* that has finished=true: every log entry precedes it, nothing follows it.
C21_NonFollowEndsWithOneFinished ==
    (HandlerDone /\ ~follow /\ ~cancelled /\ log_args # None)
        => /\ FinishedCount(outbound) = 1
           /\ IsFinished(Last(outbound))

\* C21 witness: a non-follow call of the main handler that relayed two
\* chunks and has returned
C21_Witness ==
    /\ HandlerDone /\ ~follow /\ ~cancelled /\ runtime_up /\ impl = "main"
    /\ log_todo = << >> /\ Len(log_read) = 2
    /\ Len(LogEntries(outbound)) = 2
    /\ Last(outbound) = LogsStatus(TRUE, TRUE)

\* C22: in a GetLogs call with follow=true no finished status is sent
\* while the runtime keeps the stream open, and the response stream ends
\* only when the client cancels or the runtime raises an error.
C22_FollowEndsOnlyOnCancelOrError ==
    /\ (follow /\ log_open /\ faults = {}) => (FinishedCount(outbound) = 0)
    /\ (follow /\ HandlerDone) => (cancelled \/ faults # {})

\* C23: a GetLogs call for a container that does not exist ends with a
\* terminal status with success=false and finished=true and sends no log
\* entry.
C23_UnknownContainerFails ==
    (HandlerDone /\ container_status = "absent" /\ runtime_up /\ ~cancelled)
        => /\ outbound # << >>
           /\ Last(outbound).type = "status"
           /\ ~Last(outbound).success
           /\ Last(outbound).finished
           /\ LogEntries(outbound) = << >>

\* C24: a request with stdout=false and stderr=false asks the runtime for
\* both streams.
C24_NeitherStreamMeansBoth ==
    (log_args # None /\ ~req_stdout /\ ~req_stderr)
        => (log_args[1].stdout /\ log_args[1].stderr)

\* C26: when exactly one of the two streams is requested every chunk read
\* from the runtime is forwarded verbatim as one log entry tagged with the
\* requested stream.
C26_OneStreamForwardedVerbatim ==
    (req_stdout # req_stderr /\ ~cancelled /\ faults = {})
        => LogEntries(outbound) =
               [i \in 1..Len(log_read) |->
                   LogEntry(log_read[i], IF req_stdout THEN "stdout" ELSE "stderr")]


(***************************************************************************)
(* The CLI exec command reading the response stream of one ExecContainer   *)
(* call: cli/commands/exec.py ExecCommand ("command") and cli/main.py exec *)
(* ("main").  cli_exit is the argument of sys.exit, 0 for a normal return; *)
(* the exit codes a runtime reports lie in 0..255.                         *)
(***************************************************************************)
MaxResponses == 3   \* responses on the stream the CLI reads

\* exit codes carried by the statuses on the stream
CliExitCodes == {0, 3}

CliResponses ==
    { Status(ok, Some(code), fin) : ok \in BOOLEAN, code \in CliExitCodes, fin \in BOOLEAN }
        \cup { Output(<< 104 >>, "stdout") }

\* a CLI that exits with the code the status carries even on failure
StatusExit_Mut(status) == status.exit_code

\* exec.py 62-66, 132-139; main.py 338-345, 362-364: sys.exit for a status
\* that ends the command
StatusExit(status) == IF ~status.success THEN 1 ELSE status.exit_code

\* the status makes the command stop reading
StopsReading(status) == ~status.success \/ status.finished

CliInit ==
    /\ ExecIdle /\ DemuxIdle /\ LogsIdle /\ AuthIdle /\ ExtIdle
    /\ cli_impl \in {"command", "main"}
    /\ cli_in \in SeqsUpTo(CliResponses, MaxResponses)
    /\ cli_pc = "run"
    /\ cli_pos = 0
    /\ cli_exit = 0
    /\ cli_err = << >>

cliFixed == << execVars, demuxVars, logsVars, authVars, extVars, cli_impl, cli_in >>

\* exec.py 60-73, 130-147; main.py 336-359: one response of the stream
Cli_Response ==
    /\ cli_pc = "run" /\ cli_pos < Len(cli_in)
    /\ cli_pos' = cli_pos + 1
    /\ LET response == cli_in[cli_pos + 1]
       IN  IF response.type = "status" /\ StopsReading(response)
           THEN /\ cli_pc' = "exited"
                /\ cli_exit' = StatusExit(response)
                /\ cli_err' = IF ~response.success
                              THEN Append(cli_err, "status_message")
                              ELSE cli_err
           ELSE UNCHANGED << cli_pc, cli_exit, cli_err >>
    /\ UNCHANGED cliFixed

\* exec.py 60, 130; main.py 336, 360-364: the stream ends without a status
\* that stops the command, which returns normally
Cli_StreamEnd ==
    /\ cli_pc = "run" /\ cli_pos = Len(cli_in)
    /\ cli_pc' = "exited"
    /\ cli_exit' = 0
    /\ UNCHANGED << cliFixed, cli_pos, cli_err >>

\* exec.py 36-38 (message on the error stream); main.py 366-369 (message
\* on the output stream): KeyboardInterrupt while the command runs
Cli_Interrupt ==
    /\ cli_pc = "run"
    /\ cli_pc' = "interrupted"
    /\ cli_exit' = 130
    /\ cli_err' = IF cli_impl = "command" THEN Append(cli_err, "interrupted") ELSE cli_err
    /\ UNCHANGED << cliFixed, cli_pos >>

CliNext == Cli_Response \/ Cli_StreamEnd \/ Cli_Interrupt

CliSpec == CliInit /\ [][CliNext]_vars

\* the response the CLI handled last
CliLast == cli_in[cli_pos]

\* C28: the CLI exec command exits with the exit code of the status that
\* has success=true and finished=true, exits with 1 after printing the
\* status message to the error stream when a status has success=false,
\* and exits with 130 when it is interrupted; it reads on past any other
\* response.
C28_CliExitCodes ==
    /\ cli_pc = "interrupted" => cli_exit = 130
    /\ \A i \in 1..cli_pos :
          (cli_in[i].type = "status" /\ (~cli_in[i].success \/ cli_in[i].finished))
              => (i = cli_pos /\ cli_pc # "run")
    /\ (cli_pc = "exited" /\ cli_pos > 0 /\ CliLast.type = "status" /\ ~CliLast.success)
          => (cli_exit = 1 /\ cli_err = << "status_message" >>)
    /\ (cli_pc = "exited" /\ cli_pos > 0 /\ CliLast.type = "status" /\ CliLast.success
           /\ CliLast.finished)
          => (cli_exit = CliLast.exit_code /\ cli_err = << >>)

\* C28 witness: the CLI has read output and exited 1 on a failure status
\* that carries another exit code
C28_Witness ==
    /\ cli_pc = "exited" /\ cli_pos = 2
    /\ cli_in[1].type = "output"
    /\ CliLast = Status(FALSE, Some(3), TRUE)
    /\ cli_exit = 1


(***************************************************************************)
(* Authentication of one call by the modular server:                       *)
(* agent/grpc_server/server.py DockyardServer.start,                       *)
(* agent/auth/interceptor.py TokenAuthInterceptor and                      *)
(* agent/auth/token_validator.py TokenValidator.  secret is the value of   *)
(* DOCKYARD_AUTH_TOKEN (empty when unset), metadata the call's             *)
(* authorization entry (None when the call has none).                      *)
(***************************************************************************)
MaxToken == 2   \* characters of a token

AsciiChars == {"a", "b"}
TokenChars == AsciiChars \cup {"U+00E9"}

\* values of the environment variable
SecretValues == SeqsUpTo(TokenChars, MaxToken)

\* authorization entries a call can carry: metadata values are ASCII
MetadataValues == {None} \cup { Some(t) : t \in SeqsUpTo(AsciiChars, MaxToken) }

IsAscii(str) == \A i \in 1..Len(str) : str[i] \in AsciiChars

\* token_validator.py 16-25: TokenValidator.__init__
AuthToken(env) == IF env = << >> THEN None ELSE Some(env)

\* token_validator.py 54-61: TokenValidator.is_enabled
IsEnabled(auth_token) == auth_token # None

\* secrets.compare_digest on two str values: TypeError unless both are ASCII
CompareDigest(a, b) ==
    IF ~IsAscii(a) \/ ~IsAscii(b) THEN "TypeError"
    ELSE IF a = b THEN "equal" ELSE "different"

\* token_validator.py 27-52: TokenValidator.validate
Validate(auth_token, provided_token) ==
    IF auth_token = None THEN "equal"
    ELSE IF provided_token = << >> THEN "different"
    ELSE CompareDigest(provided_token, auth_token[1])

\* interceptor.py 21-53: TokenAuthInterceptor.intercept_service; an
\* exception of the interceptor makes the server reject the call as UNKNOWN
InterceptService(auth_token, md) ==
    IF ~IsEnabled(auth_token) THEN "handler"
    ELSE IF md = None \/ md[1] = << >> THEN "unauthenticated"
    ELSE LET valid == Validate(auth_token, md[1])
         IN  IF valid = "TypeError" THEN "unknown"
             ELSE IF valid = "different" THEN "unauthenticated"
             ELSE "handler"

AuthInit ==
    /\ DemuxIdle /\ LogsIdle /\ CliIdle /\ ExtIdle
    /\ impl = "servicer" /\ container_status = "running" /\ requests = << >>
    /\ req_pos = 0 /\ inbound_open = FALSE /\ hpc = "off" /\ ipc = "idle" /\ opc = "idle"
    /\ proc_todo = << >> /\ proc_emitted = << >> /\ proc_running = FALSE /\ proc_exit = 0
    /\ sock_rx = << >> /\ sock_shut_wr = FALSE /\ sock_closed = 0 /\ stdin_bytes = << >>
    /\ output_queue = << >> /\ stop_event = FALSE /\ outbound = << >> /\ runtime_up = TRUE
    /\ api_calls = {} /\ exit_status = "none" /\ faults = {} /\ cancelled = FALSE
    /\ auth_pc = "start"
    /\ auth_enabled \in BOOLEAN
    /\ secret \in SecretValues
    /\ metadata \in MetadataValues
    /\ interceptor = FALSE

authFixed == << execVars, demuxVars, logsVars, cliVars, extVars, auth_enabled, secret,
               metadata >>

\* server.py 36-61: the interceptor is installed when authentication is
\* enabled in the configuration and the validator has a token
A_Start ==
    /\ auth_pc = "start"
    /\ interceptor' = (auth_enabled /\ IsEnabled(AuthToken(secret)))
    /\ auth_pc' = "serving"
    /\ UNCHANGED authFixed

\* a call arrives at a server that has the interceptor
A_Intercept ==
    /\ auth_pc = "serving" /\ interceptor
    /\ auth_pc' = InterceptService(AuthToken(secret), metadata)
    /\ UNCHANGED << authFixed, interceptor >>

\* a call arrives at a server without interceptor: the handler is invoked
A_Direct ==
    /\ auth_pc = "serving" /\ ~interceptor
    /\ auth_pc' = "handler"
    /\ UNCHANGED << authFixed, interceptor >>

AuthNext == A_Start \/ A_Intercept \/ A_Direct

AuthSpec == AuthInit /\ [][AuthNext]_vars

CallSettled == auth_pc \notin {"off", "start", "serving"}

\* C29: with a secret configured and authentication enabled the handler
\* is invoked only if the authorization metadata equals the secret, and a
\* call with a missing or different credential is aborted as
\* UNAUTHENTICATED; with no secret configured every call reaches its
\* handler.
C29_OnlyTheSecretReachesTheHandler ==
    /\ (secret # << >> /\ auth_enabled /\ auth_pc = "handler") => metadata = Some(secret)
    /\ (secret # << >> /\ auth_enabled /\ CallSettled /\ metadata # Some(secret))
          => auth_pc = "unauthenticated"
    /\ (secret = << >> /\ CallSettled) => auth_pc = "handler"


(***************************************************************************)
(* Properties of the exec call: the order of its steps and of its chunks.  *)
(***************************************************************************)
\* the call has pump threads: main.py always, exec_service.py when interactive
Pumped == opc # "idle"

\* C31: in an exec call the exit status is queried from the runtime only
\* after the output pump has signalled completion, and the runtime socket
\* is closed only after the exit status has been queried.
C31_CompletionThenExitThenClose ==
    (Pumped /\ runtime_up /\ faults = {})
        => /\ exit_status # "none" => opc = "done"
           /\ sock_closed > 0 => exit_status # "none"

\* the (stream, data) pairs of the output messages among msgs that carry
\* data, in order
RECURSIVE SentPairs(_)
SentPairs(msgs) ==
    IF msgs = << >> THEN << >>
    ELSE (IF Head(msgs).type = "output" /\ Head(msgs).data # << >>
          THEN << << Head(msgs).stream_type, Head(msgs).data >> >> ELSE << >>)
         \o SentPairs(Tail(msgs))

\* the (stream, data) pairs of the chunks waiting in the queue, in order
RECURSIVE QueuedPairs(_)
QueuedPairs(q) ==
    IF q = << >> THEN << >>
    ELSE (IF Head(q) \in {EndSignal, DoneItem} THEN << >>
          ELSE << << (IF Head(q)[1] = "output" THEN "stdout" ELSE Head(q)[1]),
                     Head(q)[2] >> >>)
         \o QueuedPairs(Tail(q))

\* the frames read from the socket as (stream, payload) pairs, in order
FramePairs(fs) == [i \in 1..Len(fs) |-> << StreamName(fs[i].tag), fs[i].payload >>]

RECURSIVE PairBytes(_)
PairBytes(ps) == IF ps = << >> THEN << >> ELSE Head(ps)[2] \o PairBytes(Tail(ps))

\* a is b with some elements left out, the order kept
RECURSIVE IsSubSeq(_, _)
IsSubSeq(a, b) ==
    IF a = << >> THEN TRUE
    ELSE IF b = << >> THEN FALSE
    ELSE IF Head(a) = Head(b) THEN IsSubSeq(Tail(a), Tail(b))
    ELSE IsSubSeq(a, Tail(b))

\* the chunks past the pump: those sent, then those still queued
PastPump == SentPairs(outbound) \o QueuedPairs(output_queue)

\* C32: output chunks reach the client in the order in which they were read
\* from the runtime.  With a TTY the bytes sent, followed by the bytes still
\* queued, are the bytes read, in order; without one the chunks sent and
\* queued are chunks of the frames read, in the order of the frames.
C32_OutputOrderPreserved ==
    (FirstIsStart /\ proc_emitted # << >>)
        => IF start.interactive
           THEN /\ PairBytes(PastPump) = RawBytes(FramesRead)
                /\ \A i \in 1..Len(PastPump) : PastPump[i][1] = "stdout"
           ELSE IsSubSeq(PastPump, FramePairs(FramesRead))

\* C32 witness: the main handler has sent two different chunks, read one
\* after the other, while the pump thread was still at work
C32_Witness ==
    /\ impl = "main" /\ FirstIsStart /\ ~start.interactive
    /\ SentPairs(outbound) = << << "stdout", << 65 >> >>, << "stderr", << 66 >> >> >>
    /\ opc = "recv"

\* the step at which a write of the input pump fails
SendFails == "send" \in faults' /\ "send" \notin faults

\* C33: an input message whose write to the runtime fails because the
\* process has finished adds no message to the response stream, and the
\* terminal status still carries the exit code of the process.
C33_LateInputIsNoOp ==
    /\ [][SendFails => outbound' = outbound]_vars
    /\ [](( HandlerDone /\ faults = {"send"} /\ runtime_up )
            => /\ Last(outbound) = Status(TRUE, Some(proc_exit), TRUE)
               /\ FinishedPositions = {Len(outbound)})

\* C33 witness: a write failed on a finished process that exited with 1, and
\* the call has ended
C33_Witness ==
    /\ HandlerDone /\ faults = {"send"} /\ runtime_up
    /\ ~proc_running /\ proc_exit = 1
    /\ req_pos = 2


(***************************************************************************)
(* One started exec call whose handler is scheduled fairly: a step of the  *)
(* handler that stays possible is taken.  Nothing is assumed of the pump   *)
(* threads, the process, the runtime connection or the client.             *)
(***************************************************************************)
\* a started call on a running container, with at most one input message:
\* the calls that get pump threads
FairInit ==
    /\ Init
    /\ requests # << >>
    /\ requests[1].kind = "start" /\ requests[1].command # << >>
    /\ Len(requests) <= 2
    /\ container_status = "running"

FairSpec == FairInit /\ [][Next]_vars /\ WF_vars(MainHandler \/ ServicerHandler)

\* an item of the queue is the end sentinel of the output pump
IsSentinel(item) == item[1] \in {"None", "done"}

SentinelsQueued == Len(SelectSeq(output_queue, IsSentinel))

InConsumerLoop == hpc \in {"loop", "svc_loop"}

\* C35: the output pump enqueues its end sentinel exactly once when it
\* ends (end of stream or failed read): the queue never holds two
\* sentinels, and while the handler is in its consumer loop after the pump
\* has ended the sentinel is in the queue, behind every chunk; the handler
\* then leaves the consumer loop, and never waits on the queue forever.
C35_SentinelOnceAndLoopEnds ==
    /\ [](SentinelsQueued <= 1)
    /\ []((opc = "done" /\ InConsumerLoop)
            => (output_queue # << >> /\ IsSentinel(Last(output_queue))))
    /\ ((opc = "done") ~> ~InConsumerLoop)

\* C35 witness: the pump of the modular agent has ended on a failed read
\* while the handler was in its consumer loop with a chunk still queued
C35_Witness ==
    /\ impl = "servicer" /\ opc = "done" /\ hpc = "svc_loop"
    /\ "recv" \in faults
    /\ Len(output_queue) = 2


(***************************************************************************)
(* ConvSpec: the modular agent's conversion of one ExecService result     *)
(* (servicer.py 144-163).  ExecService hands the servicer dicts with the   *)
(* keys stdout, stderr and exit_code (exec_service.py 110-115, 226-231,    *)
(* 246-250); the servicer turns each of them into one ExecResponse.        *)
(***************************************************************************)
MaxConvBytes == 2   \* bytes in one field of a result

ConvBytes == SeqsUpTo({65, 66}, MaxConvBytes)

ConvInit ==
    /\ ExecIdle /\ DemuxIdle /\ LogsIdle /\ CliIdle /\ AuthIdle
    /\ MultiIdle /\ StatsIdle /\ RemoveIdle /\ IterIdle
    /\ conv_pc = "ready"
    /\ conv_response = None
    /\ exec_result \in { OutputDict(o, e, x) :
                           o \in ConvBytes, e \in ConvBytes, x \in {None, Some(0), Some(1)} }

\* servicer.py 144-163: the body of the loop over exec_service.execute_command
S_Convert ==
    /\ conv_pc = "ready"
    /\ conv_response' = Some(ServicerResponse(exec_result))
    /\ conv_pc' = "done"
    /\ UNCHANGED << execVars, demuxVars, logsVars, cliVars, authVars, multiVars,
                    statsVars, rmVars, iterVars, exec_result >>

ConvNext == S_Convert

ConvSpec == ConvInit /\ [][ConvNext]_vars

\* the bytes of the given stream that the response carries
Forwarded(stream) ==
    IF /\ conv_response # None
       /\ conv_response[1].type = "output"
       /\ conv_response[1].stream_type = stream
    THEN conv_response[1].data
    ELSE << >>

MaxCallChunks == 2  \* chunks written by the process of one call
MaxCallInputs == 1  \* input messages sent by the client of one call

\* the k-th chunk written by the process of call c / input sent by its client
CallChunk(c, k) == [call |-> c, n |-> k]

CallData(c, n) == [k \in 1..n |-> CallChunk(c, k)]

\* the socket exec_start returned to call c: the name sock (exec_socket) is a
\* local of the invocation, bound to the connection the runtime opened for it
SockOf(c) == c

\* one queue kept where every call finds it
QueueOf_Mut(c) == 1

\* the queue call c created: output_queue = queue.Queue() is a local too
QueueOf(c) == c

\* the end item of the output pump: (None, None) in main.py, ('done', None)
\* in exec_service.py
PumpEnd == IF impl = "main" THEN << "None", None >> ELSE DoneItem

MultiInit ==
    /\ impl \in {"main", "servicer"}
    /\ container_status = "running" /\ requests = << >>
    /\ req_pos = 0 /\ inbound_open = FALSE /\ hpc = "off" /\ ipc = "idle" /\ opc = "idle"
    /\ proc_todo = << >> /\ proc_emitted = << >> /\ proc_running = FALSE /\ proc_exit = 0
    /\ sock_rx = << >> /\ sock_shut_wr = FALSE /\ sock_closed = 0 /\ stdin_bytes = << >>
    /\ output_queue = << >> /\ stop_event = FALSE /\ outbound = << >> /\ runtime_up = TRUE
    /\ api_calls = {} /\ exit_status = "none" /\ faults = {} /\ cancelled = FALSE
    /\ DemuxIdle /\ LogsIdle /\ CliIdle /\ AuthIdle
    /\ ConvIdle /\ StatsIdle /\ RemoveIdle /\ IterIdle
    /\ m_pc = [c \in Calls |-> "off"]
    /\ \E n \in [Calls -> 0..MaxCallChunks] : m_proc = [c \in Calls |-> CallData(c, n[c])]
    /\ \E n \in [Calls -> 0..MaxCallInputs] : m_in = [c \in Calls |-> CallData(c, n[c])]
    /\ m_sock = [c \in Calls |-> << >>]
    /\ m_stdin = [c \in Calls |-> << >>]
    /\ m_queue = [c \in Calls |-> << >>]
    /\ m_out = [c \in Calls |-> << >>]

multiFixed == << execVars, demuxVars, logsVars, cliVars, authVars, convVars, statsVars,
                 rmVars, iterVars >>

\* exec_service.py 159-220, main.py 238-329: the exec is created and started,
\* the queue made and the two pump threads started
MC_Start(c) ==
    /\ m_pc[c] = "off"
    /\ m_pc' = [m_pc EXCEPT ![c] = "pumping"]
    /\ UNCHANGED << multiFixed, m_proc, m_in, m_sock, m_stdin, m_queue, m_out >>

\* the process of call c writes a chunk: the runtime puts it on the
\* connection it opened for that exec
MC_ProcWrite(c) ==
    /\ m_pc[c] # "off"
    /\ m_proc[c] # << >>
    /\ m_sock' = [m_sock EXCEPT ![c] = Append(@, Head(m_proc[c]))]
    /\ m_proc' = [m_proc EXCEPT ![c] = Tail(@)]
    /\ UNCHANGED << multiFixed, m_pc, m_in, m_stdin, m_queue, m_out >>

\* exec_service.py 189-193, main.py 289-314: the output pump of call c reads a
\* chunk from its socket and puts it on its queue
MC_Recv(c) ==
    /\ m_pc[c] = "pumping"
    /\ m_sock[SockOf(c)] # << >>
    /\ m_queue' = [m_queue EXCEPT ![QueueOf(c)] =
                       QueuePut(@, << "output", Head(m_sock[SockOf(c)]) >>)]
    /\ m_sock' = [m_sock EXCEPT ![SockOf(c)] = Tail(@)]
    /\ UNCHANGED << multiFixed, m_pc, m_proc, m_in, m_stdin, m_out >>

\* exec_service.py 191-202, main.py 291-316: recv returns no data once the
\* process is gone; the pump leaves its end item and ends
MC_Eof(c) ==
    /\ m_pc[c] = "pumping"
    /\ m_proc[c] = << >>
    /\ m_sock[SockOf(c)] = << >>
    /\ m_queue' = [m_queue EXCEPT ![QueueOf(c)] = QueuePut(@, PumpEnd)]
    /\ m_pc' = [m_pc EXCEPT ![c] = "draining"]
    /\ UNCHANGED << multiFixed, m_proc, m_in, m_sock, m_stdin, m_out >>

\* exec_service.py 206-210, main.py 271-277: the input pump of call c takes the
\* next message of its request stream and writes it to its socket
MC_Send(c) ==
    /\ m_pc[c] = "pumping"
    /\ m_in[c] # << >>
    /\ m_stdin' = [m_stdin EXCEPT ![SockOf(c)] = Append(@, Head(m_in[c]))]
    /\ m_in' = [m_in EXCEPT ![c] = Tail(@)]
    /\ UNCHANGED << multiFixed, m_pc, m_proc, m_sock, m_queue, m_out >>

\* exec_service.py 223-250, main.py 333-385: the handler of call c takes an
\* item from its queue: a chunk is sent on the call's response stream, the end
\* item leads to the status message that ends the call
MC_Yield(c) ==
    /\ m_pc[c] \in {"pumping", "draining"}
    /\ m_queue[QueueOf(c)] # << >>
    /\ LET item == Head(m_queue[QueueOf(c)]) IN
         IF item[1] = "output"
         THEN /\ m_out' = [m_out EXCEPT ![c] = Append(@, item[2])]
              /\ m_pc' = m_pc
         ELSE /\ m_out' = [m_out EXCEPT ![c] = Append(@, [call |-> c, n |-> 0])]
              /\ m_pc' = [m_pc EXCEPT ![c] = "done"]
    /\ m_queue' = [m_queue EXCEPT ![QueueOf(c)] = Tail(@)]
    /\ UNCHANGED << multiFixed, m_proc, m_in, m_sock, m_stdin >>

MultiNext ==
    \E c \in Calls :
        \/ MC_Start(c)
        \/ MC_ProcWrite(c)
        \/ MC_Recv(c)
        \/ MC_Eof(c)
        \/ MC_Send(c)
        \/ MC_Yield(c)

MultiSpec == MultiInit /\ [][MultiNext]_vars

\* C34: with several exec calls running at once, every chunk sent on a call's
\* response stream was read from that call's own socket, and every input
\* written to a call's socket came from that call's own request stream.
C34_CallsShareNothing ==
    \A c \in Calls :
        /\ \A i \in 1..Len(m_out[c]) : m_out[c][i].call = c
        /\ \A i \in 1..Len(m_queue[c]) :
               m_queue[c][i][1] = "output" => m_queue[c][i][2].call = c
        /\ \A i \in 1..Len(m_stdin[c]) : m_stdin[c][i].call = c

\* both calls are under way, each has had a chunk of its process sent to its
\* client, and one has had its input delivered
C34_Witness ==
    /\ m_pc[1] = "pumping" /\ m_pc[2] = "pumping"
    /\ m_out[1] = << CallChunk(1, 1) >>
    /\ m_out[2] = << CallChunk(2, 1) >>
    /\ m_stdin[2] = << CallChunk(2, 1) >>
    /\ m_sock[1] # << >>


(***************************************************************************)
(* StatsSpec: one GetStats call (stats_service.py 25-127 behind            *)
(* servicer.py 321-368, and main.py 744-878).  The handler picks the       *)
(* containers to collect from, then yields one response per collection     *)
(* round; a round asks every picked container for its statistics and       *)
(* leaves out the ones whose request fails.                                *)
(***************************************************************************)
MaxRounds == 2      \* collection rounds of a streaming call the model follows

StatsResponse(success, stats) == [type |-> "stats", success |-> success, stats |-> stats]

StatsInit ==
    /\ impl \in {"main", "servicer"}
    /\ container_status = "running" /\ requests = << >>
    /\ req_pos = 0 /\ inbound_open = FALSE /\ hpc = "st_select" /\ ipc = "idle"
    /\ opc = "idle"
    /\ proc_todo = << >> /\ proc_emitted = << >> /\ proc_running = FALSE /\ proc_exit = 0
    /\ sock_rx = << >> /\ sock_shut_wr = FALSE /\ sock_closed = 0 /\ stdin_bytes = << >>
    /\ output_queue = << >> /\ stop_event = FALSE /\ outbound = << >> /\ runtime_up = TRUE
    /\ api_calls = {} /\ exit_status = "none" /\ faults = {} /\ cancelled = FALSE
    /\ DemuxIdle /\ LogsIdle /\ CliIdle /\ AuthIdle
    /\ ConvIdle /\ MultiIdle /\ RemoveIdle /\ IterIdle
    /\ stats_stream \in BOOLEAN
    /\ stats_ids \in SUBSET ContainerNames
    /\ world \in [ContainerNames -> {"absent", "exited", "running"}]
    /\ selected = {}
    /\ rounds = 0

statsFixed == << impl, container_status, requests, req_pos, inbound_open, ipc, opc,
                 procVars, sockVars, output_queue, stop_event, api_calls, exit_status,
                 demuxVars, logsVars, cliVars, authVars, convVars, multiVars, rmVars,
                 iterVars, stats_stream, stats_ids >>

\* a handler that goes on collecting whatever the request says
StreamContinues_Mut(stream) == TRUE

\* stats_service.py 114-116, main.py 856-858: if not stream: break
StreamContinues(stream) == stream

\* the containers the call collects from: stats_service.py 41-50 takes every
\* identifier the runtime knows, or every running container when none is
\* given; main.py 753-767 keeps the running ones in both cases
Matching ==
    IF stats_ids = {}
    THEN { n \in ContainerNames : world[n] = "running" }
    ELSE IF impl = "main"
         THEN { n \in stats_ids : world[n] = "running" }
         ELSE { n \in stats_ids : world[n] # "absent" }

\* the lookup raises into the outer except: containers.list() with the runtime
\* down in both agents, and in main.py also containers.get, whose failure is
\* caught only when it is NotFound (stats_service.py 47-48 catches every one)
LookupRaises == ~runtime_up /\ (stats_ids = {} \/ impl = "main")

\* stats_service.py 39-59 and 119-125, main.py 749-774 and 872-878: the
\* containers are picked; with none of them, or with the lookup failing, the
\* call yields one response and returns
St_Select ==
    /\ hpc = "st_select"
    /\ IF LookupRaises
       THEN /\ outbound' = Append(outbound, StatsResponse(impl = "servicer", {}))
            /\ faults' = faults \cup {"runtime_client"}
            /\ hpc' = "done"
            /\ UNCHANGED selected
       ELSE LET found == IF runtime_up THEN Matching ELSE {} IN
            /\ selected' = found
            /\ faults' = faults
            /\ IF found = {}
               THEN /\ outbound' = Append(outbound, StatsResponse(impl = "servicer", {}))
                    /\ hpc' = "done"
               ELSE /\ outbound' = outbound
                    /\ hpc' = "st_collect"
    /\ UNCHANGED << statsFixed, runtime_up, cancelled, world, rounds >>

\* stats_service.py 62-116, main.py 776-858: one round.  A container whose
\* statistics request raises is left out of the round (100-102, 844-846);
\* the response is yielded, and a call that does not stream ends
St_Round ==
    /\ hpc = "st_collect"
    /\ \E got \in SUBSET selected :
         /\ \A n \in got : runtime_up /\ world[n] # "absent"
         /\ \A n \in selected : (runtime_up /\ world[n] = "running") => n \in got
         /\ outbound' = Append(outbound, StatsResponse(TRUE, got))
    /\ rounds' = rounds + 1
    /\ hpc' = IF StreamContinues(stats_stream) THEN "st_sleep" ELSE "done"
    /\ UNCHANGED << statsFixed, runtime_up, faults, cancelled, world, selected >>

\* stats_service.py 118-119, main.py 860-861: time.sleep(1), then the next round
St_Sleep ==
    /\ hpc = "st_sleep"
    /\ rounds < MaxRounds
    /\ hpc' = "st_collect"
    /\ UNCHANGED << statsFixed, outbound, runtime_up, faults, cancelled, world,
                    selected, rounds >>

\* the client cancels a call that is under way: gRPC closes the generator
St_Cancel ==
    /\ hpc = "st_sleep"
    /\ cancelled' = TRUE
    /\ hpc' = "done"
    /\ UNCHANGED << statsFixed, outbound, runtime_up, faults, world, selected, rounds >>

\* a container starts, stops or is removed while the call runs
St_WorldChange ==
    /\ hpc \in {"st_collect", "st_sleep"}
    /\ \E n \in ContainerNames, st \in {"absent", "exited", "running"} :
         /\ world[n] # st
         /\ world' = [world EXCEPT ![n] = st]
    /\ UNCHANGED << statsFixed, outbound, runtime_up, faults, cancelled, selected,
                    rounds, hpc >>

\* the connection to the runtime is lost while the call runs
St_RuntimeDrop ==
    /\ hpc \in {"st_select", "st_collect", "st_sleep"}
    /\ runtime_up
    /\ runtime_up' = FALSE
    /\ UNCHANGED << statsFixed, outbound, faults, cancelled, world, selected, rounds,
                    hpc >>

StatsNext ==
    \/ St_Select
    \/ St_Round
    \/ St_Sleep
    \/ St_Cancel
    \/ St_WorldChange
    \/ St_RuntimeDrop

StatsSpec == StatsInit /\ [][StatsNext]_vars

\* the call found containers to collect from
StatsMatched == hpc # "st_select" /\ selected # {}

\* C37: GetStats with stream=false yields exactly one response and then ends;
\* with stream=true it yields one response per collection round and does not
\* end by itself; when no container matches the request it yields a single
\* response and ends, whatever the mode.
C37_StatsResponsesPerMode ==
    /\ ~stats_stream =>
          /\ Len(outbound) <= 1
          /\ (Len(outbound) = 1) <=> (hpc = "done")
    /\ (stats_stream /\ StatsMatched) =>
          /\ Len(outbound) = rounds
          /\ hpc = "done" => cancelled
    /\ (hpc # "st_select" /\ ~StatsMatched) =>
          /\ hpc = "done"
          /\ Len(outbound) = 1

\* a streaming call of the modular agent has yielded a response for each of
\* its rounds and is waiting for the next one
C37_Witness ==
    /\ impl = "servicer" /\ stats_stream /\ hpc = "st_sleep"
    /\ rounds = MaxRounds /\ Len(outbound) = MaxRounds
    /\ selected = {"web", "db"}
    /\ ~cancelled


(***************************************************************************)
(* RemoveSpec: one RemoveContainer call (container_service.py 194-224      *)
(* behind servicer.py 290-319, and main.py 694-742), with the container    *)
(* starting, stopping or disappearing and the runtime connection dropping  *)
(* while the call runs.                                                    *)
(***************************************************************************)
RemoveResponse(success) == [type |-> "remove", success |-> success]

RemoveInit ==
    /\ impl \in {"main", "servicer"}
    /\ container_status \in {"absent", "exited", "running"}
    /\ requests = << >>
    /\ req_pos = 0 /\ inbound_open = FALSE /\ hpc = "rm_get" /\ ipc = "idle"
    /\ opc = "idle"
    /\ proc_todo = << >> /\ proc_emitted = << >> /\ proc_running = FALSE /\ proc_exit = 0
    /\ sock_rx = << >> /\ sock_shut_wr = FALSE /\ sock_closed = 0 /\ stdin_bytes = << >>
    /\ output_queue = << >> /\ stop_event = FALSE /\ outbound = << >> /\ runtime_up = TRUE
    /\ api_calls = {} /\ exit_status = "none" /\ faults = {} /\ cancelled = FALSE
    /\ DemuxIdle /\ LogsIdle /\ CliIdle /\ AuthIdle
    /\ ConvIdle /\ MultiIdle /\ StatsIdle /\ IterIdle
    /\ force \in BOOLEAN
    /\ seen_status = "unseen"

rmFixed == << impl, requests, req_pos, inbound_open, ipc, opc, procVars, sockVars,
              output_queue, stop_event, exit_status, cancelled, demuxVars, logsVars,
              cliVars, authVars, convVars, multiVars, statsVars, iterVars, force >>

\* a handler that lets every removal through
RemoveRefused_Mut(status, forced) == FALSE

\* container_service.py 215-216, main.py 714-718:
\* if container.status == 'running' and not force
RemoveRefused(status, forced) == status = "running" /\ ~forced

\* the call ends with a failure response
RemoveFails ==
    /\ outbound' = Append(outbound, RemoveResponse(FALSE))
    /\ hpc' = "done"

\* container_service.py 211-212, main.py 701-712: containers.get.  The
\* modular agent takes the status from what get returned; main.py reloads
\* the container first
Rm_Get ==
    /\ hpc = "rm_get"
    /\ api_calls' = api_calls \cup {"get"}
    /\ IF ~runtime_up \/ container_status = "absent"
       THEN /\ RemoveFails
            /\ faults' = faults \cup {"runtime_client"}
            /\ UNCHANGED seen_status
       ELSE /\ faults' = faults
            /\ outbound' = outbound
            /\ IF impl = "main"
               THEN hpc' = "rm_reload" /\ UNCHANGED seen_status
               ELSE hpc' = "rm_check" /\ seen_status' = container_status
    /\ UNCHANGED << rmFixed, container_status, runtime_up >>

\* main.py 714: container.reload()
Rm_Reload ==
    /\ hpc = "rm_reload"
    /\ api_calls' = api_calls \cup {"reload"}
    /\ IF ~runtime_up \/ container_status = "absent"
       THEN /\ RemoveFails
            /\ faults' = faults \cup {"runtime_client"}
            /\ UNCHANGED seen_status
       ELSE /\ faults' = faults
            /\ outbound' = outbound
            /\ hpc' = "rm_check"
            /\ seen_status' = container_status
    /\ UNCHANGED << rmFixed, container_status, runtime_up >>

\* container_service.py 215-216, main.py 715-719: a running container is not
\* removed unless force is given
Rm_Check ==
    /\ hpc = "rm_check"
    /\ IF RemoveRefused(seen_status, force)
       THEN RemoveFails
       ELSE outbound' = outbound /\ hpc' = "rm_remove"
    /\ UNCHANGED << rmFixed, container_status, runtime_up, api_calls, faults,
                    seen_status >>

\* container_service.py 218-224, main.py 721-742: container.remove(force=force).
\* The runtime refuses to remove a running container without force, and a
\* container that is gone
Rm_Remove ==
    /\ hpc = "rm_remove"
    /\ api_calls' = api_calls \cup {"remove"}
    /\ IF \/ ~runtime_up
          \/ container_status = "absent"
          \/ (container_status = "running" /\ ~force)
       THEN /\ RemoveFails
            /\ faults' = faults \cup {"runtime_client"}
            /\ UNCHANGED container_status
       ELSE /\ container_status' = "absent"
            /\ outbound' = Append(outbound, RemoveResponse(TRUE))
            /\ hpc' = "done"
            /\ faults' = faults
    /\ UNCHANGED << rmFixed, runtime_up, seen_status >>

RemoveHandler == Rm_Get \/ Rm_Reload \/ Rm_Check \/ Rm_Remove

\* someone else starts, stops or removes the container while the call runs
Rm_ContainerChange ==
    /\ hpc \in {"rm_get", "rm_reload", "rm_check", "rm_remove"}
    /\ container_status # "absent"
    /\ \E st \in {"absent", "exited", "running"} :
         /\ st # container_status
         /\ container_status' = st
    /\ UNCHANGED << rmFixed, hpc, outbound, runtime_up, api_calls, faults, seen_status >>

\* the connection to the runtime is lost while the call runs
Rm_RuntimeDrop ==
    /\ hpc \in {"rm_get", "rm_reload", "rm_check", "rm_remove"}
    /\ runtime_up
    /\ runtime_up' = FALSE
    /\ UNCHANGED << rmFixed, hpc, outbound, container_status, api_calls, faults,
                    seen_status >>

RemoveNext ==
    \/ Rm_Get
    \/ Rm_Reload
    \/ Rm_Check
    \/ Rm_Remove
    \/ Rm_ContainerChange
    \/ Rm_RuntimeDrop

RemoveSpec == RemoveInit /\ [][RemoveNext]_vars

\* the call read the container's status as running and force was not given
RunningUnforced == seen_status = "running" /\ ~force

\* C38: RemoveContainer on a container whose status is running, with
\* force=false, returns success=false and never issues the remove to the
\* runtime; the call leaves the container present and running.
C38_RunningContainerNotRemoved ==
    /\ [](RunningUnforced =>
            /\ "remove" \notin api_calls
            /\ hpc = "done" => outbound = << RemoveResponse(FALSE) >>)
    /\ [][(RunningUnforced' /\ RemoveHandler) => container_status' = container_status]_vars

\* the modular agent has refused to remove a running container, which is
\* still there and running
C38_Witness ==
    /\ impl = "servicer" /\ RunningUnforced /\ hpc = "done"
    /\ outbound = << RemoveResponse(FALSE) >>
    /\ container_status = "running"


(***************************************************************************)
(* IterSpec: the CLI's interactive exec (cli/commands/exec.py 76-150).     *)
(* The main thread reads the response stream; gRPC consumes                *)
(* request_iterator on a thread of its own; read_stdin puts what the user  *)
(* types on input_queue.  stop_event is what the main thread uses to tell  *)
(* the other two to stop.                                                  *)
(***************************************************************************)
MaxTyped == 2       \* chunks the user types during the command

IterInit ==
    /\ ExecIdle /\ DemuxIdle /\ LogsIdle /\ AuthIdle
    /\ ConvIdle /\ MultiIdle /\ StatsIdle /\ RemoveIdle
    /\ cli_impl = "command"
    /\ cli_in \in SeqsUpTo(CliResponses, MaxResponses)
    /\ cli_pc = "run"
    /\ cli_pos = 0
    /\ cli_exit = 0
    /\ cli_err = << >>
    /\ cli_stop = FALSE
    /\ it_pc = "start"
    /\ cli_queue = << >>
    /\ it_sent = << >>

iterFixed == << execVars, demuxVars, logsVars, authVars, convVars, multiVars, statsVars,
                rmVars, cli_impl, cli_in >>

\* the input messages the iterator has yielded
InputsSent == SelectSeq(it_sent, LAMBDA m : m.type = "input")

\* the chunks typed so far: those waiting on the queue and those sent on
Typed == Len(cli_queue) + Len(InputsSent)

\* exec.py 95-106: read_stdin has read a chunk and puts it on input_queue
It_Type ==
    /\ cli_pc \in {"run", "stopping"}
    /\ Typed < MaxTyped
    /\ cli_queue' = Append(cli_queue, 100 + Typed)
    /\ UNCHANGED << iterFixed, cli_pc, cli_pos, cli_exit, cli_err, cli_stop, it_pc,
                    it_sent >>

\* exec.py 115-116: the iterator yields the start request
It_Start ==
    /\ it_pc = "start"
    /\ it_sent' = Append(it_sent, [type |-> "start", data |-> 0])
    /\ it_pc' = "test"
    /\ UNCHANGED << iterFixed, cliVars, cli_stop, cli_queue >>

\* exec.py 119: while not stop_event.is_set()
It_Test ==
    /\ it_pc = "test"
    /\ it_pc' = IF cli_stop THEN "ended" ELSE "poll"
    /\ UNCHANGED << iterFixed, cliVars, cli_stop, cli_queue, it_sent >>

\* exec.py 121-124: input_queue.get(timeout=0.1) returns a chunk, which is
\* yielded as an input message
It_Yield ==
    /\ it_pc = "poll"
    /\ cli_queue # << >>
    /\ it_sent' = Append(it_sent, [type |-> "input", data |-> Head(cli_queue)])
    /\ cli_queue' = Tail(cli_queue)
    /\ it_pc' = "test"
    /\ UNCHANGED << iterFixed, cliVars, cli_stop >>

\* exec.py 125-126: the poll times out, queue.Empty, continue
It_Empty ==
    /\ it_pc = "poll"
    /\ cli_queue = << >>
    /\ it_pc' = "test"
    /\ UNCHANGED << iterFixed, cliVars, cli_stop, cli_queue, it_sent >>

\* exec.py 130-147: one response of the stream.  A failure status and a
\* terminal status set stop_event before sys.exit (134-139)
It_Response ==
    /\ cli_pc = "run" /\ cli_pos < Len(cli_in)
    /\ cli_pos' = cli_pos + 1
    /\ LET response == cli_in[cli_pos + 1]
       IN  IF response.type = "status" /\ StopsReading(response)
           THEN /\ cli_stop' = TRUE
                /\ cli_pc' = "stopping"
                /\ cli_exit' = StatusExit(response)
                /\ cli_err' = IF ~response.success
                              THEN Append(cli_err, "status_message")
                              ELSE cli_err
           ELSE UNCHANGED << cli_pc, cli_exit, cli_err, cli_stop >>
    /\ UNCHANGED << iterFixed, it_pc, cli_queue, it_sent >>

\* exec.py 130, 148-149: the loop is left at the end of the stream, or by the
\* exception the stream raised; the finally clause sets stop_event
It_StreamEnd ==
    /\ cli_pc = "run"
    /\ \E raised \in BOOLEAN :
         /\ ~raised => cli_pos = Len(cli_in)
         /\ cli_exit' = IF raised THEN 1 ELSE 0
    /\ cli_stop' = TRUE
    /\ cli_pc' = "stopping"
    /\ UNCHANGED << iterFixed, cli_pos, cli_err, it_pc, cli_queue, it_sent >>

\* the command is over: the process exits, at once or after the iterator's
\* thread has run on for a while
It_Exit ==
    /\ cli_pc = "stopping"
    /\ cli_pc' = "exited"
    /\ \E killed \in BOOLEAN : it_pc' = IF killed THEN "killed" ELSE it_pc
    /\ UNCHANGED << iterFixed, cli_pos, cli_exit, cli_err, cli_stop, cli_queue, it_sent >>

IterNext ==
    \/ It_Type
    \/ It_Start
    \/ It_Test
    \/ It_Yield
    \/ It_Empty
    \/ It_Response
    \/ It_StreamEnd
    \/ It_Exit

IterSpec == IterInit /\ [][IterNext]_vars

\* C39: in the CLI's interactive exec, stop_event is set on every exit from
\* the response loop (terminal status, failure status, end of stream,
\* exception); once it is set the request iterator yields no further input
\* message, and it ends at its next test of the event instead of polling the
\* queue again.
C39_StopEventEndsTheIterator ==
    /\ [](cli_pc \in {"stopping", "exited"} => cli_stop)
    /\ [][cli_stop => InputsSent' = InputsSent]_vars
    /\ [][(cli_stop /\ it_pc = "test") => it_pc' # "poll"]_vars

====
